---- MODULE Spec2Model ----
(***************************************************************************)
(* Text attributes and the XTPUSHSGR / XTPOPSGR stacks of the terminal's   *)
(* VT adapter.                                                             *)
(*                                                                         *)
(*   TextAttribute    buffer/out/TextAttribute.cpp                         *)
(*   SgrStack (ring)  types/sgrStack.cpp        prefix Types_              *)
(*   SgrStack (count) buffer/out/sgrStack.hpp   prefix Buffer_             *)
(*                                                                         *)
(* A 16-bit WORD is a natural number below 65536; a bitset is the set of   *)
(* the indices of its set bits.                                            *)
(***************************************************************************)
EXTENDS Integers, Sequences, FiniteSets, TLC

(***************************************************************************)
(* Bit arithmetic on naturals.                                             *)
(***************************************************************************)
RECURSIVE BitAnd(_, _)
BitAnd(x, y) ==
    IF x = 0 \/ y = 0 THEN 0
    ELSE (IF x % 2 = 1 /\ y % 2 = 1 THEN 1 ELSE 0) + 2 * BitAnd(x \div 2, y \div 2)

RECURSIVE BitOr(_, _)
BitOr(x, y) ==
    IF x = 0 THEN y
    ELSE IF y = 0 THEN x
    ELSE (IF x % 2 = 1 \/ y % 2 = 1 THEN 1 ELSE 0) + 2 * BitOr(x \div 2, y \div 2)

\* x with every bit of mask cleared (WI_ClearAllFlags)
ClearAllFlags(x, mask) == x - BitAnd(x, mask)

\* WI_IsFlagSet for a single-bit flag
IsFlagSet(x, flag) == BitAnd(x, flag) = flag

\* WI_UpdateFlagsInMask: the bits of mask are replaced by those of newFlags
UpdateFlagsInMask(x, mask, newFlags) == BitOr(ClearAllFlags(x, mask), BitAnd(newFlags, mask))

\* WI_UpdateFlag
UpdateFlag(x, flag, isSet) == IF isSet THEN BitOr(x, flag) ELSE ClearAllFlags(x, flag)

\* WI_ToggleFlag
ToggleFlag(x, flag) == IF IsFlagSet(x, flag) THEN ClearAllFlags(x, flag) ELSE BitOr(x, flag)

(***************************************************************************)
(* The legacy attribute word (conattrs.hpp / wincon.h).                    *)
(***************************************************************************)
FG_ATTRS == 15
BG_ATTRS == 240
FOREGROUND_INTENSITY == 8
COMMON_LVB_LEADING_BYTE == 256
COMMON_LVB_TRAILING_BYTE == 512
COMMON_LVB_GRID_HORIZONTAL == 1024
COMMON_LVB_GRID_LVERTICAL == 2048
COMMON_LVB_GRID_RVERTICAL == 4096
COMMON_LVB_REVERSE_VIDEO == 16384
COMMON_LVB_UNDERSCORE == 32768
COMMON_LVB_SBCSDBCS == 768
META_ATTRS == 57088

(***************************************************************************)
(* TextColor: default, a table index, or an RGB value.                     *)
(***************************************************************************)
TextColorDefault == [meta |-> "IsDefault", value |-> 0]
TextColorIndex(index) == [meta |-> "IsIndex", value |-> index]
TextColorRgb(rgb) == [meta |-> "IsRgb", value |-> rgb]

(***************************************************************************)
(* TextAttribute.  extendedAttrs holds the rendition flags that have no    *)
(* bit in the legacy word.                                                 *)
(***************************************************************************)
MkAttr(fg, bg, bold, legacy, ext) ==
    [foreground |-> fg, background |-> bg, isBold |-> bold,
     wAttrLegacy |-> legacy, extendedAttrs |-> ext]

\* the default-constructed TextAttribute
DefaultTextAttribute == MkAttr(TextColorDefault, TextColorDefault, FALSE, 0, {})

IsBold(a) == a.isBold

IsReverseVideo(a) == IsFlagSet(a.wAttrLegacy, COMMON_LVB_REVERSE_VIDEO)

IsLeadingByte(a) == IsFlagSet(a.wAttrLegacy, COMMON_LVB_LEADING_BYTE)

IsTrailingByte(a) == IsFlagSet(a.wAttrLegacy, COMMON_LVB_LEADING_BYTE)

IsBottomHorizontalDisplayed(a) == IsFlagSet(a.wAttrLegacy, COMMON_LVB_UNDERSCORE)

IsUnderline(a) == IsBottomHorizontalDisplayed(a)

SetBoldness(a, isBold) == [a EXCEPT !.isBold = isBold]

Embolden(a) == SetBoldness(a, TRUE)

Debolden(a) == SetBoldness(a, FALSE)

SetBottomHorizontalDisplayed(a, isDisplayed) ==
    [a EXCEPT !.wAttrLegacy = UpdateFlag(@, COMMON_LVB_UNDERSCORE, isDisplayed)]

EnableUnderline(a) == SetBottomHorizontalDisplayed(a, TRUE)

DisableUnderline(a) == SetBottomHorizontalDisplayed(a, FALSE)

Invert(a) == [a EXCEPT !.wAttrLegacy = ToggleFlag(@, COMMON_LVB_REVERSE_VIDEO)]

\* Mutant of SetForegroundFrom: the whole legacy word is copied.
SetForegroundFrom_WholeWord(a, other) ==
    [a EXCEPT !.foreground = other.foreground,
              !.wAttrLegacy = other.wAttrLegacy]

SetForegroundFrom(a, other) ==
    [a EXCEPT !.foreground = other.foreground,
              !.wAttrLegacy = BitOr(ClearAllFlags(@, FG_ATTRS),
                                    BitAnd(other.wAttrLegacy, FG_ATTRS))]

SetBackgroundFrom(a, other) ==
    [a EXCEPT !.background = other.background,
              !.wAttrLegacy = BitOr(ClearAllFlags(@, BG_ATTRS),
                                    BitAnd(other.wAttrLegacy, BG_ATTRS))]

\* Mutant of SetMetaAttributes: the new flags are added to the old ones.
SetMetaAttributes_AddFlags(a, wMeta) ==
    [a EXCEPT !.wAttrLegacy =
        ClearAllFlags(BitOr(@, BitAnd(wMeta, META_ATTRS)), COMMON_LVB_SBCSDBCS)]

\* Mutant of SetMetaAttributes: the double-byte bits are taken from wMeta.
SetMetaAttributes_KeepDbcs(a, wMeta) ==
    [a EXCEPT !.wAttrLegacy = UpdateFlagsInMask(@, META_ATTRS, wMeta)]

SetMetaAttributes(a, wMeta) ==
    [a EXCEPT !.wAttrLegacy =
        ClearAllFlags(UpdateFlagsInMask(@, META_ATTRS, wMeta), COMMON_LVB_SBCSDBCS)]

GetMetaAttributes(a) ==
    ClearAllFlags(ClearAllFlags(ClearAllFlags(a.wAttrLegacy, FG_ATTRS), BG_ATTRS),
                  COMMON_LVB_SBCSDBCS)

\* Mutant of SetFromLegacy: the background index is not shifted down.
SetFromLegacy_Unshifted(a, wLegacy) ==
    [a EXCEPT !.wAttrLegacy = ClearAllFlags(BitAnd(wLegacy, META_ATTRS), COMMON_LVB_SBCSDBCS),
              !.foreground = TextColorIndex(BitAnd(wLegacy, FG_ATTRS)),
              !.background = TextColorIndex(BitAnd(wLegacy, BG_ATTRS))]

\* Mutant of SetFromLegacy: the intensity bit of the word sets the boldness.
SetFromLegacy_BoldFromIntensity(a, wLegacy) ==
    [a EXCEPT !.wAttrLegacy = ClearAllFlags(BitAnd(wLegacy, META_ATTRS), COMMON_LVB_SBCSDBCS),
              !.foreground = TextColorIndex(BitAnd(wLegacy, FG_ATTRS)),
              !.background = TextColorIndex(BitAnd(wLegacy, BG_ATTRS) \div 16),
              !.isBold = IsFlagSet(wLegacy, FOREGROUND_INTENSITY)]

SetFromLegacy(a, wLegacy) ==
    [a EXCEPT !.wAttrLegacy = ClearAllFlags(BitAnd(wLegacy, META_ATTRS), COMMON_LVB_SBCSDBCS),
              !.foreground = TextColorIndex(BitAnd(wLegacy, FG_ATTRS)),
              !.background = TextColorIndex(BitAnd(wLegacy, BG_ATTRS) \div 16)]

\* Mutant of SetLegacyAttributes: both channels are set when either is asked for.
SetLegacyAttributes_BothChannels(a, attrs, setForeground, setBackground, setMeta) ==
    LET a1 == IF setForeground \/ setBackground
              THEN [a EXCEPT !.foreground = TextColorIndex(BitAnd(attrs, FG_ATTRS)),
                             !.background = TextColorIndex(BitAnd(attrs, BG_ATTRS) \div 16)]
              ELSE a
    IN  IF setMeta THEN SetMetaAttributes(a1, attrs) ELSE a1

\* Mutant of SetLegacyAttributes: a foreground with the intensity bit makes
\* the attribute bold.
SetLegacyAttributes_BoldFromIntensity(a, attrs, setForeground, setBackground, setMeta) ==
    LET a1 == IF setForeground
              THEN [a EXCEPT !.foreground = TextColorIndex(BitAnd(attrs, FG_ATTRS)),
                             !.isBold = IsFlagSet(attrs, FOREGROUND_INTENSITY)]
              ELSE a
        a2 == IF setBackground
              THEN [a1 EXCEPT !.background = TextColorIndex(BitAnd(attrs, BG_ATTRS) \div 16)]
              ELSE a1
    IN  IF setMeta THEN SetMetaAttributes(a2, attrs) ELSE a2

SetLegacyAttributes(a, attrs, setForeground, setBackground, setMeta) ==
    LET a1 == IF setForeground
              THEN [a EXCEPT !.foreground = TextColorIndex(BitAnd(attrs, FG_ATTRS))]
              ELSE a
        a2 == IF setBackground
              THEN [a1 EXCEPT !.background = TextColorIndex(BitAnd(attrs, BG_ATTRS) \div 16)]
              ELSE a1
    IN  IF setMeta THEN SetMetaAttributes(a2, attrs) ELSE a2

\* GetLegacyAttributes: the colour indices and meta bits as one word, the
\* intensity bit folded in from isBold
GetLegacyAttributes(a) ==
    LET fg == BitAnd(a.foreground.value, FG_ATTRS)
        bg == BitAnd(a.background.value * 16, BG_ATTRS)
        meta == BitAnd(a.wAttrLegacy, META_ATTRS)
    IN  BitOr(BitOr(BitOr(fg, bg), meta), IF a.isBold THEN FOREGROUND_INTENSITY ELSE 0)

\* Mutant of SetDefaultForeground: the default colour of the moment, black,
\* stored as a colour.
SetDefaultForeground_Snapshot(a) == [a EXCEPT !.foreground = TextColorRgb(0)]

SetDefaultForeground(a) == [a EXCEPT !.foreground = TextColorDefault]

SetDefaultBackground(a) == [a EXCEPT !.background = TextColorDefault]

ForegroundIsDefault(a) == a.foreground.meta = "IsDefault"

BackgroundIsDefault(a) == a.background.meta = "IsDefault"

SetForeground(a, rgbForeground) == [a EXCEPT !.foreground = TextColorRgb(rgbForeground)]

SetBackground(a, rgbBackground) == [a EXCEPT !.background = TextColorRgb(rgbBackground)]

SetColor(a, rgbColor, fIsForeground) ==
    IF fIsForeground THEN SetForeground(a, rgbColor) ELSE SetBackground(a, rgbColor)

\* foreground and background are <<>> or <<index>>
\* Mutant of SetIndexedAttributes: an absent argument selects index 0.
SetIndexedAttributes_AbsentAsZero(a, foreground, background) ==
    [a EXCEPT !.foreground = IF foreground # <<>>
                             THEN TextColorIndex(foreground[1] % 256)
                             ELSE TextColorIndex(0),
              !.background = IF background # <<>>
                             THEN TextColorIndex(background[1] % 256)
                             ELSE TextColorIndex(0)]

SetIndexedAttributes(a, foreground, background) ==
    [a EXCEPT !.foreground = IF foreground # <<>>
                             THEN TextColorIndex(foreground[1] % 256) ELSE @,
              !.background = IF background # <<>>
                             THEN TextColorIndex(background[1] % 256) ELSE @]

\* TextColor::GetColor: the default colour for a default, the colour itself
\* for an RGB colour, the table's entry for an index, and the entry of the
\* bright index for one of the first eight indices when brighten is set
GetColor(color, colorTable, defaultColor, brighten) ==
    IF color.meta = "IsDefault" THEN defaultColor
    ELSE IF color.meta = "IsRgb" THEN color.value
    ELSE IF brighten /\ color.value < FOREGROUND_INTENSITY
    THEN colorTable[color.value + FOREGROUND_INTENSITY]
    ELSE colorTable[color.value]

_GetRgbForeground(a, colorTable, defaultColor) ==
    GetColor(a.foreground, colorTable, defaultColor, a.isBold)

_GetRgbBackground(a, colorTable, defaultColor) ==
    GetColor(a.background, colorTable, defaultColor, FALSE)

CalculateRgbForeground(a, colorTable, defaultFgColor, defaultBgColor) ==
    IF IsReverseVideo(a)
    THEN _GetRgbBackground(a, colorTable, defaultBgColor)
    ELSE _GetRgbForeground(a, colorTable, defaultFgColor)

CalculateRgbBackground(a, colorTable, defaultFgColor, defaultBgColor) ==
    IF IsReverseVideo(a)
    THEN _GetRgbForeground(a, colorTable, defaultFgColor)
    ELSE _GetRgbBackground(a, colorTable, defaultBgColor)

(***************************************************************************)
(* Rendition flags of the TextAttribute used by types/sgrStack.cpp that    *)
(* have no setter in buffer/out/TextAttribute.cpp: each is one flag, set   *)
(* to a given value.                                                       *)
(***************************************************************************)
SetExtended(a, flag, isSet) ==
    [a EXCEPT !.extendedAttrs = IF isSet THEN @ \cup {flag} ELSE @ \ {flag}]

SetBold(a, isBold) == SetBoldness(a, isBold)
IsFaint(a) == "Faint" \in a.extendedAttrs
SetFaint(a, isFaint) == SetExtended(a, "Faint", isFaint)
IsItalic(a) == "Italic" \in a.extendedAttrs
SetItalic(a, isItalic) == SetExtended(a, "Italic", isItalic)
IsUnderlined(a) == IsBottomHorizontalDisplayed(a)
SetUnderlined(a, isUnderlined) == SetBottomHorizontalDisplayed(a, isUnderlined)
IsBlinking(a) == "Blinking" \in a.extendedAttrs
SetBlinking(a, isBlinking) == SetExtended(a, "Blinking", isBlinking)
IsInvisible(a) == "Invisible" \in a.extendedAttrs
SetInvisible(a, isInvisible) == SetExtended(a, "Invisible", isInvisible)
IsCrossedOut(a) == "CrossedOut" \in a.extendedAttrs
SetCrossedOut(a, isCrossedOut) == SetExtended(a, "CrossedOut", isCrossedOut)
IsDoublyUnderlined(a) == "DoublyUnderlined" \in a.extendedAttrs
SetDoublyUnderlined(a, isDoublyUnderlined) == SetExtended(a, "DoublyUnderlined", isDoublyUnderlined)

(***************************************************************************)
(* Both stacks keep c_MaxStoredSgrPushes entries.                          *)
(***************************************************************************)
c_MaxStoredSgrPushes == 10
c_MaxBalancedPushes == 100

Slots == 0 .. (c_MaxStoredSgrPushes - 1)

(***************************************************************************)
(* SgrStack of types/sgrStack.cpp: a ring of saved entries.                *)
(* DispatchTypes::SgrSaveRestoreStackOptions, as numbered in the comments  *)
(* of _CombineWithCurrentAttributes.                                       *)
(***************************************************************************)
Opt_Boldness == 1
Opt_Faintness == 2
Opt_Italics == 3
Opt_Underline == 4
Opt_Blink == 5
Opt_Negative == 7
Opt_Invisible == 8
Opt_CrossedOut == 9
Opt_SaveForegroundColor == 10
Opt_SaveBackgroundColor == 11
Opt_DoublyUnderlined == 21
Opt_Max == 21

\* AttrBitset: std::bitset<Max + 1>
AttrBitsetSize == Opt_Max + 1
AttrBitsetAll == 0 .. (AttrBitsetSize - 1)

Types_SgrStack ==
    [nextPushIndex |-> 0,
     numSavedAttrs |-> 0,
     storedSgrAttributes |->
        [i \in Slots |-> [TextAttributes |-> DefaultTextAttribute, ValidParts |-> {}]]]

\* Mutant of Types_ValidParts: an option past the end of the bitset sets the
\* bit of its remainder.
Types_ValidParts_Wrapped(options) ==
    IF Len(options) = 0
    THEN AttrBitsetAll
    ELSE {options[i] % AttrBitsetSize : i \in 1..Len(options)}

\* the valid-parts bitset Push builds from its options
Types_ValidParts(options) ==
    IF Len(options) = 0
    THEN AttrBitsetAll
    ELSE {options[i] : i \in {j \in 1..Len(options) : options[j] < AttrBitsetSize}}

\* Mutant of Types_Push: the push index is not wrapped at the end of the array.
Types_Push_NoWrap(stk, currentAttributes, options) ==
    LET validParts == Types_ValidParts(options)
        size == c_MaxStoredSgrPushes
    IN  [nextPushIndex |-> stk.nextPushIndex + 1,
         numSavedAttrs |-> IF stk.numSavedAttrs < size
                           THEN stk.numSavedAttrs + 1
                           ELSE stk.numSavedAttrs,
         storedSgrAttributes |->
            [stk.storedSgrAttributes EXCEPT ![stk.nextPushIndex] =
                [TextAttributes |-> currentAttributes, ValidParts |-> validParts]]]

\* Mutant of Types_Push: a push made while the array is full is dropped.
Types_Push_DropWhenFull(stk, currentAttributes, options) ==
    LET validParts == Types_ValidParts(options)
        size == c_MaxStoredSgrPushes
    IN  IF stk.numSavedAttrs < size
        THEN [nextPushIndex |-> (stk.nextPushIndex + 1) % size,
              numSavedAttrs |-> stk.numSavedAttrs + 1,
              storedSgrAttributes |->
                 [stk.storedSgrAttributes EXCEPT ![stk.nextPushIndex] =
                     [TextAttributes |-> currentAttributes, ValidParts |-> validParts]]]
        ELSE stk

Types_Push(stk, currentAttributes, options) ==
    LET validParts == Types_ValidParts(options)
        size == c_MaxStoredSgrPushes
    IN  [nextPushIndex |-> (stk.nextPushIndex + 1) % size,
         numSavedAttrs |-> IF stk.numSavedAttrs < size
                           THEN stk.numSavedAttrs + 1
                           ELSE stk.numSavedAttrs,
         storedSgrAttributes |->
            [stk.storedSgrAttributes EXCEPT ![stk.nextPushIndex] =
                [TextAttributes |-> currentAttributes, ValidParts |-> validParts]]]

\* Mutant of Types_CombineWithCurrentAttributes: Negative inverts whenever the
\* saved attribute is reversed, without looking at the current one.
Types_Combine_InvertWhenSaved(currentAttributes, savedAttribute, validParts) ==
    LET r0 == currentAttributes
        r1 == IF Opt_Boldness \in validParts THEN SetBold(r0, IsBold(savedAttribute)) ELSE r0
        r2 == IF Opt_Faintness \in validParts THEN SetFaint(r1, IsFaint(savedAttribute)) ELSE r1
        r3 == IF Opt_Italics \in validParts THEN SetItalic(r2, IsItalic(savedAttribute)) ELSE r2
        r4 == IF Opt_Underline \in validParts
              THEN SetUnderlined(r3, IsUnderlined(savedAttribute)) ELSE r3
        r5 == IF Opt_Blink \in validParts
              THEN SetBlinking(r4, IsBlinking(savedAttribute)) ELSE r4
        r6 == IF Opt_Negative \in validParts
              THEN IF IsReverseVideo(savedAttribute) THEN Invert(r5) ELSE r5
              ELSE r5
        r7 == IF Opt_Invisible \in validParts
              THEN SetInvisible(r6, IsInvisible(savedAttribute)) ELSE r6
        r8 == IF Opt_CrossedOut \in validParts
              THEN SetCrossedOut(r7, IsCrossedOut(savedAttribute)) ELSE r7
        r9 == IF Opt_SaveForegroundColor \in validParts
              THEN SetForegroundFrom(r8, savedAttribute) ELSE r8
        r10 == IF Opt_SaveBackgroundColor \in validParts
               THEN SetBackgroundFrom(r9, savedAttribute) ELSE r9
    IN  IF Opt_DoublyUnderlined \in validParts
        THEN SetDoublyUnderlined(r10, IsDoublyUnderlined(savedAttribute))
        ELSE r10

Types_CombineWithCurrentAttributes(currentAttributes, savedAttribute, validParts) ==
    LET r0 == currentAttributes
        r1 == IF Opt_Boldness \in validParts THEN SetBold(r0, IsBold(savedAttribute)) ELSE r0
        r2 == IF Opt_Faintness \in validParts THEN SetFaint(r1, IsFaint(savedAttribute)) ELSE r1
        r3 == IF Opt_Italics \in validParts THEN SetItalic(r2, IsItalic(savedAttribute)) ELSE r2
        r4 == IF Opt_Underline \in validParts
              THEN SetUnderlined(r3, IsUnderlined(savedAttribute)) ELSE r3
        r5 == IF Opt_Blink \in validParts
              THEN SetBlinking(r4, IsBlinking(savedAttribute)) ELSE r4
        r6 == IF Opt_Negative \in validParts
              THEN IF IsReverseVideo(savedAttribute)
                   THEN (IF ~IsReverseVideo(r5) THEN Invert(r5) ELSE r5)
                   ELSE (IF IsReverseVideo(r5) THEN Invert(r5) ELSE r5)
              ELSE r5
        r7 == IF Opt_Invisible \in validParts
              THEN SetInvisible(r6, IsInvisible(savedAttribute)) ELSE r6
        r8 == IF Opt_CrossedOut \in validParts
              THEN SetCrossedOut(r7, IsCrossedOut(savedAttribute)) ELSE r7
        r9 == IF Opt_SaveForegroundColor \in validParts
              THEN SetForegroundFrom(r8, savedAttribute) ELSE r8
        r10 == IF Opt_SaveBackgroundColor \in validParts
               THEN SetBackgroundFrom(r9, savedAttribute) ELSE r9
    IN  IF Opt_DoublyUnderlined \in validParts
        THEN SetDoublyUnderlined(r10, IsDoublyUnderlined(savedAttribute))
        ELSE r10

\* Mutant of Types_Pop: the index is not wrapped from 0 to the last slot.
Types_Pop_NoWrap(stk, currentAttributes) ==
    IF stk.numSavedAttrs > 0
    THEN LET idx == IF stk.nextPushIndex = 0 THEN 0 ELSE stk.nextPushIndex - 1
             restoreMe == stk.storedSgrAttributes[idx]
         IN  [stack |-> [stk EXCEPT !.numSavedAttrs = @ - 1, !.nextPushIndex = idx],
              result |-> IF restoreMe.ValidParts = AttrBitsetAll
                         THEN restoreMe.TextAttributes
                         ELSE Types_CombineWithCurrentAttributes(currentAttributes,
                                                                 restoreMe.TextAttributes,
                                                                 restoreMe.ValidParts)]
    ELSE [stack |-> stk, result |-> currentAttributes]

\* Mutant of Types_Pop: no test that an entry is saved.
Types_Pop_Unchecked(stk, currentAttributes) ==
    LET idx == IF stk.nextPushIndex = 0
               THEN c_MaxStoredSgrPushes - 1
               ELSE stk.nextPushIndex - 1
        restoreMe == stk.storedSgrAttributes[idx]
    IN  [stack |-> [stk EXCEPT !.numSavedAttrs = @ - 1, !.nextPushIndex = idx],
         result |-> IF restoreMe.ValidParts = AttrBitsetAll
                    THEN restoreMe.TextAttributes
                    ELSE Types_CombineWithCurrentAttributes(currentAttributes,
                                                            restoreMe.TextAttributes,
                                                            restoreMe.ValidParts)]

\* Pop: the stack after the call and the attribute returned
Types_Pop(stk, currentAttributes) ==
    IF stk.numSavedAttrs > 0
    THEN LET idx == IF stk.nextPushIndex = 0
                    THEN c_MaxStoredSgrPushes - 1
                    ELSE stk.nextPushIndex - 1
             restoreMe == stk.storedSgrAttributes[idx]
         IN  [stack |-> [stk EXCEPT !.numSavedAttrs = @ - 1, !.nextPushIndex = idx],
              result |-> IF restoreMe.ValidParts = AttrBitsetAll
                         THEN restoreMe.TextAttributes
                         ELSE Types_CombineWithCurrentAttributes(currentAttributes,
                                                                 restoreMe.TextAttributes,
                                                                 restoreMe.ValidParts)]
    ELSE [stack |-> stk, result |-> currentAttributes]

(***************************************************************************)
(* SgrStack of buffer/out/sgrStack.hpp: a push counter over an array.      *)
(* validParts is a uint32_t; DispatchTypes::GraphicsOptions number the     *)
(* bits.                                                                   *)
(***************************************************************************)
GO_BoldBright == 1
GO_Underline == 4
GO_Negative == 7
GO_SaveForegroundColor == 10
GO_SaveBackgroundColor == 11

Uint32Bits == 32
UINT32_MAX == 0 .. (Uint32Bits - 1)

\* the set bits of a natural number
RECURSIVE BitsFrom(_, _)
BitsFrom(n, pos) ==
    IF n = 0 THEN {}
    ELSE (IF n % 2 = 1 THEN {pos} ELSE {}) \cup BitsFrom(n \div 2, pos + 1)

Buffer_GraphicsOptionToFlag(option) ==
    IF option < Uint32Bits
    THEN {option}
    ELSE {b \in BitsFrom(option, 0) : b < Uint32Bits}

Buffer_SgrStack ==
    [numSgrPushes |-> 0,
     storedSgrAttributes |-> [i \in Slots |-> DefaultTextAttribute],
     validAttributes |-> [i \in Slots |-> {}]]

Buffer_ValidParts(options) ==
    IF Len(options) = 0
    THEN UINT32_MAX
    ELSE UNION {Buffer_GraphicsOptionToFlag(options[i]) : i \in 1..Len(options)}

\* Mutant of Buffer_Push: the counter stops at c_MaxStoredSgrPushes.
Buffer_Push_CountToStored(stk, currentAttributes, options) ==
    LET validParts == Buffer_ValidParts(options)
        stored == stk.numSgrPushes < c_MaxStoredSgrPushes
    IN  [numSgrPushes |-> IF stored THEN stk.numSgrPushes + 1 ELSE stk.numSgrPushes,
         storedSgrAttributes |->
            IF stored
            THEN [stk.storedSgrAttributes EXCEPT ![stk.numSgrPushes] = currentAttributes]
            ELSE stk.storedSgrAttributes,
         validAttributes |->
            IF stored
            THEN [stk.validAttributes EXCEPT ![stk.numSgrPushes] = validParts]
            ELSE stk.validAttributes]

\* Mutant of Buffer_Push: the counter does not stop at c_MaxBalancedPushes.
Buffer_Push_Uncapped(stk, currentAttributes, options) ==
    LET validParts == Buffer_ValidParts(options)
        stored == stk.numSgrPushes < c_MaxStoredSgrPushes
    IN  [numSgrPushes |-> stk.numSgrPushes + 1,
         storedSgrAttributes |->
            IF stored
            THEN [stk.storedSgrAttributes EXCEPT ![stk.numSgrPushes] = currentAttributes]
            ELSE stk.storedSgrAttributes,
         validAttributes |->
            IF stored
            THEN [stk.validAttributes EXCEPT ![stk.numSgrPushes] = validParts]
            ELSE stk.validAttributes]

Buffer_Push(stk, currentAttributes, options) ==
    LET validParts == Buffer_ValidParts(options)
        stored == stk.numSgrPushes < c_MaxStoredSgrPushes
    IN  [numSgrPushes |-> IF stk.numSgrPushes < c_MaxBalancedPushes
                          THEN stk.numSgrPushes + 1
                          ELSE stk.numSgrPushes,
         storedSgrAttributes |->
            IF stored
            THEN [stk.storedSgrAttributes EXCEPT ![stk.numSgrPushes] = currentAttributes]
            ELSE stk.storedSgrAttributes,
         validAttributes |->
            IF stored
            THEN [stk.validAttributes EXCEPT ![stk.numSgrPushes] = validParts]
            ELSE stk.validAttributes]

\* Mutant of Buffer_CombineWithCurrentAttributes: Negative inverts whenever
\* the saved attribute and the current one agree.
Buffer_Combine_InvertWhenSame(currentAttributes, savedAttribute, validParts) ==
    LET Has(option) == Buffer_GraphicsOptionToFlag(option) \cap validParts # {}
        r0 == currentAttributes
        r1 == IF Has(GO_BoldBright)
              THEN (IF IsBold(savedAttribute) THEN Embolden(r0) ELSE Debolden(r0))
              ELSE r0
        r2 == IF Has(GO_Underline)
              THEN (IF IsUnderline(savedAttribute) THEN EnableUnderline(r1) ELSE DisableUnderline(r1))
              ELSE r1
        r3 == IF Has(GO_Negative)
              THEN IF IsReverseVideo(savedAttribute)
                   THEN (IF IsReverseVideo(r2) THEN Invert(r2) ELSE r2)
                   ELSE (IF ~IsReverseVideo(r2) THEN Invert(r2) ELSE r2)
              ELSE r2
        r4 == IF Has(GO_SaveForegroundColor) THEN SetForegroundFrom(r3, savedAttribute) ELSE r3
    IN  IF Has(GO_SaveBackgroundColor) THEN SetBackgroundFrom(r4, savedAttribute) ELSE r4

Buffer_CombineWithCurrentAttributes(currentAttributes, savedAttribute, validParts) ==
    LET Has(option) == Buffer_GraphicsOptionToFlag(option) \cap validParts # {}
        r0 == currentAttributes
        r1 == IF Has(GO_BoldBright)
              THEN (IF IsBold(savedAttribute) THEN Embolden(r0) ELSE Debolden(r0))
              ELSE r0
        r2 == IF Has(GO_Underline)
              THEN (IF IsUnderline(savedAttribute) THEN EnableUnderline(r1) ELSE DisableUnderline(r1))
              ELSE r1
        r3 == IF Has(GO_Negative)
              THEN IF IsReverseVideo(savedAttribute)
                   THEN (IF ~IsReverseVideo(r2) THEN Invert(r2) ELSE r2)
                   ELSE (IF IsReverseVideo(r2) THEN Invert(r2) ELSE r2)
              ELSE r2
        r4 == IF Has(GO_SaveForegroundColor) THEN SetForegroundFrom(r3, savedAttribute) ELSE r3
    IN  IF Has(GO_SaveBackgroundColor) THEN SetBackgroundFrom(r4, savedAttribute) ELSE r4

\* Mutant of Buffer_Pop: a full entry is merged like a partial one.
Buffer_Pop_AlwaysCombine(stk, currentAttributes) ==
    IF stk.numSgrPushes > 0
    THEN LET n == stk.numSgrPushes - 1
             popped == [stk EXCEPT !.numSgrPushes = n]
         IN  IF n < c_MaxStoredSgrPushes
             THEN [stack |-> popped,
                   result |-> Buffer_CombineWithCurrentAttributes(currentAttributes,
                                                                  stk.storedSgrAttributes[n],
                                                                  stk.validAttributes[n])]
             ELSE [stack |-> popped, result |-> currentAttributes]
    ELSE [stack |-> stk, result |-> currentAttributes]

Buffer_Pop(stk, currentAttributes) ==
    IF stk.numSgrPushes > 0
    THEN LET n == stk.numSgrPushes - 1
             popped == [stk EXCEPT !.numSgrPushes = n]
         IN  IF n < c_MaxStoredSgrPushes
             THEN [stack |-> popped,
                   result |-> IF stk.validAttributes[n] = UINT32_MAX
                              THEN stk.storedSgrAttributes[n]
                              ELSE Buffer_CombineWithCurrentAttributes(currentAttributes,
                                                                       stk.storedSgrAttributes[n],
                                                                       stk.validAttributes[n])]
             ELSE [stack |-> popped, result |-> currentAttributes]
    ELSE [stack |-> stk, result |-> currentAttributes]

(***************************************************************************)
(* State.  One SgrStack object is exercised per behaviour: impl names the  *)
(* class ("types" or "buffer").  cur is the caller's current attribute:    *)
(* Push saves it, Pop's return value replaces it, and the caller changes   *)
(* it between calls (changes counts how often).  The remaining variables   *)
(* record the calls made:                                                  *)
(*   outstanding  pushes made and not yet popped                           *)
(*   peak         how many pushes have been outstanding at once since the  *)
(*                stack was last pushed from empty: "shallow" (at most     *)
(*                c_MaxStoredSgrPushes), "deep" (at most                   *)
(*                c_MaxBalancedPushes) or "over"                           *)
(*   shadow       what each outstanding push was given, for the pushes     *)
(*                made with fewer than c_MaxStoredSgrPushes outstanding    *)
(*   lastOp, level, arg, result                                            *)
(*                the last call, the pushes outstanding before it, the     *)
(*                attribute passed and (Pop) the attribute returned        *)
(*   options      the options of the most recent Push                      *)
(*   prevOp       the call before the last one                             *)
(*   expected     (Pop) what the matching push was given, when shadowed    *)
(*   pops         consecutive Pop calls, where counted, up to PopsCap      *)
(***************************************************************************)
VARIABLES impl, tstack, bstack, cur, changes, outstanding, peak, shadow,
          prevOp, lastOp, level, arg, options, result, expected, pops

stackVars == <<impl, tstack, bstack, cur, changes, outstanding, peak, shadow,
               prevOp, lastOp, level, arg, options, result, expected, pops>>

\* SpecLegacy: the attribute under test, the word it is encoded to, the
\* attribute after decoding, and the step reached.  SpecResolve: the
\* attribute and, in pc, the setter that last set a colour of it, whether
\* it set the foreground and whether that channel was the default before.
\* SpecAttribute: the attribute a member function is called on, the word
\* passed or returned, the attribute afterwards, and in pc the function's
\* name followed by its other arguments or its result
VARIABLES attr, word, decoded, pc

legacyVars == <<attr, word, decoded, pc>>

\* SpecSgr: the host's ambient attribute, the most recent of BoldBright, Off
\* and UnBold applied to it, and whether a colour was selected since
VARIABLES attribute, lastBoldOption, colourSince

sgrVars == <<attribute, lastBoldOption, colourSince>>

\* One call of SetGraphicsRendition: the ambient attribute before the call,
\* the options passed, and the host's flag that the colour last selected by
\* table index is not a legacy one
VARIABLES ambient, rendition, fUsingRgbColor

callVars == <<ambient, rendition, fUsingRgbColor>>

\* Cursor verbs: the host's viewport and cursor position, the last verb
\* called with its arguments, the cursor position before it and what it
\* returned
VARIABLES srViewport, coordCursorPos, verb, coordBefore, fSuccess

cursorVars == <<srViewport, coordCursorPos, verb, coordBefore, fSuccess>>

\* The dispatcher's saved cursor state, the cursor and attribute the host
\* had at the most recent CursorSaveState with whether either has differed
\* from them since (<<>> if there was no save), and the number of verbs called
VARIABLES savedCursorState, savedAt, steps

\* The scrolling region last handed to the host (top and bottom both 0: no
\* region) and the one before the last verb
VARIABLES srScrollMargins, marginsBefore

marginVars == <<srScrollMargins, marginsBefore>>

\* The host calls that report failure, the host calls the last verb made in
\* order, the input events the host holds from the last injection and those
\* it held before the last verb, the index and colour of the last call of
\* the host's colour-table setter (<<>> if none), and whether the host
\* reports pty mode
VARIABLES failing, made, events, eventsBefore, colorTableEntry, fIsPty

ioVars == <<failing, made, events, eventsBefore, colorTableEntry, fIsPty>>

\* The resolutions of an attribute to displayed colours since a colour of it
\* was last set: for each the attribute, the default colours passed and the
\* two colours returned
VARIABLES resolved

hostVars == <<savedCursorState, savedAt, steps, marginVars, ioVars, resolved>>

vars == <<stackVars, legacyVars, sgrVars, callVars, cursorVars, hostVars>>

\* the saved cursor state of a new dispatcher: row 1, column 1 of the
\* viewport and the default-constructed attribute
NoSavedCursorState ==
    [Row |-> 1, Column |-> 1, Attributes |-> DefaultTextAttribute]

\* no scrolling region
NoScrollMargins == [Top |-> 0, Bottom |-> 0]

IdleMargins ==
    /\ srScrollMargins = NoScrollMargins
    /\ marginsBefore = NoScrollMargins

IdleIo ==
    /\ failing = {}
    /\ made = <<>>
    /\ events = <<>>
    /\ eventsBefore = <<>>
    /\ colorTableEntry = <<>>
    /\ fIsPty = FALSE

IdleSaved ==
    /\ savedCursorState = NoSavedCursorState
    /\ savedAt = <<>>
    /\ steps = 0
    /\ resolved = <<>>

IdleHost == IdleSaved /\ IdleMargins /\ IdleIo

IdleCall ==
    /\ ambient = DefaultTextAttribute
    /\ rendition = <<>>
    /\ fUsingRgbColor = FALSE

IdleCursor ==
    /\ srViewport = [Left |-> 0, Top |-> 0, Right |-> 0, Bottom |-> 0]
    /\ coordCursorPos = [X |-> 0, Y |-> 0]
    /\ verb = <<>>
    /\ coordBefore = [X |-> 0, Y |-> 0]
    /\ fSuccess = TRUE

IdleLegacy ==
    /\ attr = DefaultTextAttribute
    /\ word = 0
    /\ decoded = DefaultTextAttribute
    /\ pc = "idle"

IdleSgr ==
    /\ attribute = DefaultTextAttribute
    /\ lastBoldOption = <<>>
    /\ colourSince = FALSE

\* Bounds of the exploration
MaxChanges == 1
MaxOutstandingTypes == 12
MaxOutstandingBuffer == 102

PopsCap == c_MaxBalancedPushes + 2

\* how many option values past the end of the enumeration are tried
InvalidSpan == 2

\* Attributes the caller has at hand in the deep runs: two attributes that
\* differ in every part.
AttrGrayOnBlack == MkAttr(TextColorIndex(7), TextColorIndex(0), FALSE, 0, {})
AttrBoldGreenOnBlue ==
    MkAttr(TextColorIndex(2), TextColorIndex(1), TRUE,
           COMMON_LVB_UNDERSCORE + COMMON_LVB_REVERSE_VIDEO, {"Italic"})
StackAttrs == {AttrGrayOnBlack, AttrBoldGreenOnBlue}

StackStart(i, a) ==
    /\ impl = i
    /\ tstack = Types_SgrStack
    /\ bstack = Buffer_SgrStack
    /\ cur = a
    /\ changes = 0
    /\ outstanding = 0
    /\ peak = "shallow"
    /\ shadow = <<>>
    /\ prevOp = "none"
    /\ lastOp = "none"
    /\ level = 0
    /\ arg = a
    /\ options = <<>>
    /\ result = a
    /\ expected = <<>>
    /\ pops = 0

\* the stack variables where no stack is in use
IdleStack == StackStart("none", DefaultTextAttribute)

InitStack(i, a) == StackStart(i, a) /\ IdleLegacy /\ IdleSgr /\ IdleCall /\ IdleCursor /\ IdleHost

\* peak after one more push
PeakAfterPush ==
    LET now == outstanding + 1
        sofar == IF outstanding = 0 THEN "shallow" ELSE peak
    IN  IF now > c_MaxBalancedPushes THEN "over"
        ELSE IF now > c_MaxStoredSgrPushes /\ sofar = "shallow" THEN "deep"
        ELSE sofar

\* the record of a Push(cur, o)
NotePush(o) ==
    /\ outstanding' = outstanding + 1
    /\ peak' = PeakAfterPush
    /\ shadow' = IF outstanding < c_MaxStoredSgrPushes
                 THEN Append(shadow, [attr |-> cur, options |-> o])
                 ELSE shadow
    /\ prevOp' = lastOp
    /\ lastOp' = "push"
    /\ level' = outstanding
    /\ arg' = cur
    /\ options' = o
    /\ result' = cur
    /\ expected' = <<>>
    /\ pops' = 0
    /\ UNCHANGED <<cur, changes, legacyVars, sgrVars, callVars, cursorVars, hostVars>>

\* the record of a Pop(cur) that returned r: r becomes the current attribute
NotePop(r, counted) ==
    /\ outstanding' = IF outstanding > 0 THEN outstanding - 1 ELSE 0
    /\ peak' = peak
    /\ shadow' = IF outstanding \in 1..c_MaxStoredSgrPushes
                 THEN SubSeq(shadow, 1, outstanding - 1)
                 ELSE shadow
    /\ prevOp' = lastOp
    /\ lastOp' = "pop"
    /\ level' = outstanding
    /\ arg' = cur
    /\ result' = r
    /\ cur' = r
    /\ expected' = IF outstanding \in 1..c_MaxStoredSgrPushes
                   THEN <<shadow[outstanding]>>
                   ELSE <<>>
    /\ pops' = IF ~counted THEN 0 ELSE IF pops < PopsCap THEN pops + 1 ELSE pops
    /\ UNCHANGED <<changes, options, legacyVars, sgrVars, callVars, cursorVars, hostVars>>

\* the caller changes the current attribute (an SGR sequence between calls)
Change(attrs, maxChanges) ==
    /\ changes < maxChanges
    /\ cur' \in attrs \ {cur}
    /\ changes' = changes + 1
    /\ UNCHANGED <<impl, tstack, bstack, outstanding, peak, shadow,
                   prevOp, lastOp, level, arg, options, result, expected, pops,
                   legacyVars, sgrVars, callVars, cursorVars, hostVars>>

TypesPush(optMenu, maxOut) ==
    /\ impl = "types"
    /\ outstanding < maxOut
    /\ \E o \in optMenu :
          /\ tstack' = Types_Push(tstack, cur, o)
          /\ NotePush(o)
    /\ UNCHANGED <<impl, bstack>>

TypesPop(counted) ==
    /\ impl = "types"
    /\ LET r == Types_Pop(tstack, cur)
       IN  /\ tstack' = r.stack
           /\ NotePop(r.result, counted)
    /\ UNCHANGED <<impl, bstack>>

BufferPush(optMenu, maxOut) ==
    /\ impl = "buffer"
    /\ outstanding < maxOut
    /\ \E o \in optMenu :
          /\ bstack' = Buffer_Push(bstack, cur, o)
          /\ NotePush(o)
    /\ UNCHANGED <<impl, tstack>>

BufferPop(counted) ==
    /\ impl = "buffer"
    /\ LET r == Buffer_Pop(bstack, cur)
       IN  /\ bstack' = r.stack
           /\ NotePop(r.result, counted)
    /\ UNCHANGED <<impl, tstack>>

(***************************************************************************)
(* Spec: any sequence of full pushes (no options) and pops on one stack,   *)
(* the caller changing the current attributes between calls.               *)
(***************************************************************************)
Init == \E i \in {"types", "buffer"}, a \in StackAttrs : InitStack(i, a)

Next ==
    \/ Change(StackAttrs, MaxChanges)
    \/ TypesPush({<<>>}, MaxOutstandingTypes)
    \/ TypesPop(FALSE)
    \/ BufferPush({<<>>}, MaxOutstandingBuffer)
    \/ BufferPop(FALSE)

Spec == Init /\ [][Next]_vars

(***************************************************************************)
(* Claims about the stacks under Spec.                                     *)
(*                                                                         *)
(* A Pop made with `level` pushes outstanding matches the push that made   *)
(* the level-th one; `expected` holds what that push was given.  In a run  *)
(* of N pushes followed by N pops from the empty stack the pop numbered j  *)
(* has level N - j + 1, and peak tells N <= c_MaxStoredSgrPushes           *)
(* ("shallow"), N <= c_MaxBalancedPushes ("deep") or more ("over").        *)
(***************************************************************************)
Restored == expected # <<>> /\ result = expected[1].attr

\* C1: types/sgrStack.cpp, N <= 100 pushes followed by N pops from the empty
\* stack, each pop's result becoming the current attribute: the attribute
\* after the last pop is the one passed to the first push.
C1_TypesBalance ==
    (impl = "types" /\ lastOp = "pop" /\ level = 1 /\ peak # "over") => Restored

\* C2: buffer/out/sgrStack.hpp, N <= 100 pushes followed by N pops from the
\* empty stack: the pops with at most c_MaxStoredSgrPushes outstanding restore
\* the snapshot of their push, the earlier ones return the current attribute
\* unchanged, and the last pop returns what the first push was given.
C2_BufferBalance ==
    (impl = "buffer" /\ lastOp = "pop" /\ peak # "over") =>
        /\ level \in 1..c_MaxStoredSgrPushes => Restored
        /\ level > c_MaxStoredSgrPushes => result = arg
        /\ outstanding = 0 /\ level = 1 => result = expected[1].attr

\* more than c_MaxStoredSgrPushes pushes were outstanding, and the last pop
\* replaced the current attribute by the first push's
C2_Witness ==
    /\ impl = "buffer" /\ lastOp = "pop" /\ peak = "deep"
    /\ level = 1 /\ outstanding = 0
    /\ result # arg /\ Restored

\* C4: a Push made with fewer than c_MaxStoredSgrPushes outstanding, then
\* changes of the current attribute, then Pop: Pop returns exactly what was
\* pushed, whatever the current attribute is.
C4_FullRestore ==
    (lastOp = "pop" /\ prevOp = "push" /\ level \in 1..c_MaxStoredSgrPushes) => Restored

C4_WitnessTypes ==
    /\ impl = "types" /\ lastOp = "pop" /\ prevOp = "push"
    /\ level = c_MaxStoredSgrPushes /\ result # arg /\ Restored

\* C5: k <= c_MaxStoredSgrPushes nested pushes from the empty stack, then k
\* pops: each pop returns the snapshot of the push it matches, so the pops
\* return a_k, ..., a_1.
C5_ReverseOrder ==
    (lastOp = "pop" /\ peak = "shallow" /\ level >= 1) => Restored

\* a pop that follows a pop and restores an attribute other than the one the
\* previous pop restored
C5_Witness ==
    /\ lastOp = "pop" /\ prevOp = "pop" /\ peak = "shallow" /\ level >= 1
    /\ outstanding >= 1 /\ result # arg /\ Restored

\* a Pop step
PopStep == TypesPop(FALSE) \/ BufferPop(FALSE)

\* C6: Pop with no push outstanding returns its argument and leaves the
\* stack as it was, however often it is repeated.
C6_PopOnEmpty ==
    [][(outstanding = 0 /\ PopStep) =>
         (result' = cur /\ cur' = cur /\ tstack' = tstack /\ bstack' = bstack)]_vars

\* a second pop in a row on the empty stack, the array still holding an
\* attribute other than the one passed
C6_Witness ==
    /\ lastOp = "pop" /\ prevOp = "pop" /\ level = 0 /\ result = arg
    /\ \/ impl = "buffer" /\ bstack.storedSgrAttributes[0] \in StackAttrs \ {arg}
       \/ impl = "types" /\ \E i \in Slots :
             tstack.storedSgrAttributes[i].TextAttributes \in StackAttrs \ {arg}

(***************************************************************************)
(* SpecPartial: one Push with a list of valid options on the empty ring    *)
(* stack, changes of the current attribute, then Pop.                      *)
(***************************************************************************)
\* the options _CombineWithCurrentAttributes restores
SavableOptions ==
    {Opt_Boldness, Opt_Faintness, Opt_Italics, Opt_Underline, Opt_Blink,
     Opt_Negative, Opt_Invisible, Opt_CrossedOut, Opt_SaveForegroundColor,
     Opt_SaveBackgroundColor, Opt_DoublyUnderlined}

\* a set of options as the list a caller passes, in increasing order
RECURSIVE OptionList(_)
OptionList(S) ==
    IF S = {} THEN <<>>
    ELSE LET m == CHOOSE x \in S : \A y \in S : x <= y
         IN  <<m>> \o OptionList(S \ {m})

ValidOptionLists == {OptionList(S) : S \in (SUBSET SavableOptions) \ {{}}}

OptionSet(o) == {o[i] : i \in 1..Len(o)}

\* Attributes that differ pairwise in parts, the first and second in every part
AttrPlain == MkAttr(TextColorIndex(7), TextColorIndex(0), FALSE, 0, {})
AttrEverything ==
    MkAttr(TextColorIndex(2), TextColorIndex(1), TRUE,
           COMMON_LVB_UNDERSCORE + COMMON_LVB_REVERSE_VIDEO + COMMON_LVB_GRID_HORIZONTAL,
           {"Faint", "Italic", "Blinking", "Invisible", "CrossedOut", "DoublyUnderlined"})
AttrMixed ==
    MkAttr(TextColorRgb(255), TextColorDefault, TRUE,
           COMMON_LVB_REVERSE_VIDEO + COMMON_LVB_GRID_LVERTICAL,
           {"Italic", "Invisible"})
PartialAttrs == {AttrPlain, AttrEverything, AttrMixed}

InitPartial == \E a \in PartialAttrs : InitStack("types", a)

PartialPush == lastOp = "none" /\ TypesPush(ValidOptionLists, c_MaxStoredSgrPushes)

PartialChange == lastOp = "push" /\ Change(PartialAttrs, MaxChanges)

NextPartial ==
    \/ PartialPush
    \/ PartialChange
    \/ TypesPop(FALSE)

SpecPartial == InitPartial /\ [][NextPartial]_vars

\* the sub-attribute of a that a stack option names
SubAttribute(a, option) ==
    IF option = Opt_Boldness THEN <<IsBold(a)>>
    ELSE IF option = Opt_Faintness THEN <<IsFaint(a)>>
    ELSE IF option = Opt_Italics THEN <<IsItalic(a)>>
    ELSE IF option = Opt_Underline THEN <<IsUnderlined(a)>>
    ELSE IF option = Opt_Blink THEN <<IsBlinking(a)>>
    ELSE IF option = Opt_Negative THEN <<IsReverseVideo(a)>>
    ELSE IF option = Opt_Invisible THEN <<IsInvisible(a)>>
    ELSE IF option = Opt_CrossedOut THEN <<IsCrossedOut(a)>>
    ELSE IF option = Opt_SaveForegroundColor
         THEN <<a.foreground, BitAnd(a.wAttrLegacy, FG_ATTRS)>>
    ELSE IF option = Opt_SaveBackgroundColor
         THEN <<a.background, BitAnd(a.wAttrLegacy, BG_ATTRS)>>
    ELSE <<IsDoublyUnderlined(a)>>

\* what no stack option names: the grid lines and double-byte bits
Unsaved(a) ==
    BitAnd(a.wAttrLegacy,
           COMMON_LVB_SBCSDBCS + COMMON_LVB_GRID_HORIZONTAL
             + COMMON_LVB_GRID_LVERTICAL + COMMON_LVB_GRID_RVERTICAL)

\* C3: Push(a, S) with S a non-empty set of valid options, then Pop(c):
\* the attribute returned has a's value in each sub-attribute named in S
\* and c's value in every other sub-attribute.
C3_PartialSave ==
    (impl = "types" /\ lastOp = "pop" /\ level = 1 /\ expected # <<>>
       /\ expected[1].options \in ValidOptionLists) =>
        LET a == expected[1].attr
            S == OptionSet(expected[1].options)
        IN  /\ \A o \in SavableOptions :
                 SubAttribute(result, o) =
                    IF o \in S THEN SubAttribute(a, o) ELSE SubAttribute(arg, o)
            /\ Unsaved(result) = Unsaved(arg)

\* S = {Boldness}: boldness restored against the current one, foreground
\* and background kept from the current attribute
C3_Witness ==
    /\ impl = "types" /\ lastOp = "pop" /\ level = 1 /\ expected # <<>>
    /\ expected[1].options = <<Opt_Boldness>>
    /\ result.isBold = expected[1].attr.isBold /\ result.isBold # arg.isBold
    /\ result.foreground = arg.foreground
    /\ result.foreground # expected[1].attr.foreground
    /\ result.background = arg.background
    /\ result.background # expected[1].attr.background

(***************************************************************************)
(* SpecUnwind: any sequence of full pushes and pops, the consecutive pops  *)
(* counted; the caller changes the current attribute once the stack has    *)
(* been unwound.                                                           *)
(***************************************************************************)
Unwound == pops > c_MaxBalancedPushes

ChangeUnwound == Unwound /\ Change(StackAttrs, MaxChanges)

NextUnwind ==
    \/ TypesPush({<<>>}, MaxOutstandingTypes)
    \/ TypesPop(TRUE)
    \/ BufferPush({<<>>}, MaxOutstandingBuffer)
    \/ BufferPop(TRUE)
    \/ ChangeUnwound

SpecUnwind == Init /\ [][NextUnwind]_vars

\* the logical push depth of the stack in use
Depth == IF impl = "types" THEN tstack.numSavedAttrs ELSE bstack.numSgrPushes

\* C7: the logical push depth never exceeds c_MaxBalancedPushes; after
\* c_MaxBalancedPushes + 1 consecutive pops the stack is empty, and every
\* pop after those returns its argument.
C7_BoundedUnwind ==
    /\ Depth \in 0..c_MaxBalancedPushes
    /\ Unwound => Depth = 0
    /\ (lastOp = "pop" /\ pops > c_MaxBalancedPushes + 1) => result = arg

\* more than c_MaxBalancedPushes pushes were outstanding, and the pop after
\* c_MaxBalancedPushes + 1 pops returned its argument although the array
\* holds another attribute
C7_Witness ==
    /\ impl = "buffer" /\ peak = "over" /\ lastOp = "pop"
    /\ pops > c_MaxBalancedPushes + 1 /\ Depth = 0
    /\ result = arg /\ bstack.storedSgrAttributes[0] \in StackAttrs \ {arg}

(***************************************************************************)
(* SpecEmptyPush: full pushes on the ring stack, then one Push whose       *)
(* options are all past the end of the enumeration, then pops; the caller  *)
(* changes the current attribute in between.                               *)
(***************************************************************************)
InvalidOptions == AttrBitsetSize .. (AttrBitsetSize + InvalidSpan - 1)

InvalidOptionLists ==
    {<<x>> : x \in InvalidOptions} \cup {<<x, y>> : x \in InvalidOptions, y \in InvalidOptions}

InitEmptyPush == \E a \in StackAttrs : InitStack("types", a)

\* no pop and no push with options yet
Pushing == pops = 0 /\ options = <<>>

PushBefore == Pushing /\ TypesPush({<<>>}, MaxOutstandingTypes)

EmptyPush == Pushing /\ TypesPush(InvalidOptionLists, MaxOutstandingTypes)

NextEmptyPush ==
    \/ PushBefore
    \/ EmptyPush
    \/ Change(StackAttrs, MaxChanges)
    \/ TypesPop(TRUE)

SpecEmptyPush == InitEmptyPush /\ [][NextEmptyPush]_vars

\* what the statement asks of a behaviour in which the empty push was made
EmptyPushLegal ==
    /\ lastOp = "push" => tstack.numSavedAttrs = level + 1
    /\ (lastOp = "pop" /\ prevOp = "push") => result = arg
    /\ (lastOp = "pop" /\ expected # <<>> /\ expected[1].options # <<>>) => result = arg
    /\ (lastOp = "pop" /\ expected # <<>> /\ expected[1].options = <<>>) => Restored

\* C8: a Push whose options are all out of range is counted as one more
\* saved entry, the Pop that matches it returns the current attribute, and
\* the pops after that restore what the pushes before it were given.
C8_EmptyPush == options \in InvalidOptionLists => EmptyPushLegal

\* The same with at most c_MaxStoredSgrPushes pushes outstanding at any time.
C8_EmptyPushShallow ==
    (options \in InvalidOptionLists /\ peak = "shallow") => EmptyPushLegal

\* an empty push on top of full pushes was popped without effect, and the
\* pop after it restored an attribute other than the current one
C8_WitnessShallow ==
    /\ options \in InvalidOptionLists /\ peak = "shallow"
    /\ lastOp = "pop" /\ prevOp = "pop" /\ pops = 2
    /\ result # arg /\ Restored

(***************************************************************************)
(* SpecLegacy: an attribute with legacy colour indices is encoded to its   *)
(* legacy word, and the word is decoded into the same attribute.           *)
(***************************************************************************)
\* the 16 colour indices of a legacy channel
LegacyIndices == 0 .. FG_ATTRS

MetaBits ==
    {COMMON_LVB_LEADING_BYTE, COMMON_LVB_TRAILING_BYTE, COMMON_LVB_GRID_HORIZONTAL,
     COMMON_LVB_GRID_LVERTICAL, COMMON_LVB_GRID_RVERTICAL, COMMON_LVB_REVERSE_VIDEO,
     COMMON_LVB_UNDERSCORE}

RECURSIVE SumOf(_)
SumOf(S) == IF S = {} THEN 0 ELSE LET x == CHOOSE y \in S : TRUE IN x + SumOf(S \ {x})

\* every combination of meta bits
MetaWords == {SumOf(S) : S \in SUBSET MetaBits}

InitLegacy ==
    /\ IdleStack
    /\ IdleSgr
    /\ IdleCall
    /\ IdleCursor /\ IdleHost
    /\ \E fg \in LegacyIndices, bg \in LegacyIndices, m \in MetaWords, b \in BOOLEAN :
          attr = MkAttr(TextColorIndex(fg), TextColorIndex(bg), b, m, {})
    /\ word = 0
    /\ decoded = DefaultTextAttribute
    /\ pc = "start"

Encode ==
    /\ pc = "start"
    /\ word' = GetLegacyAttributes(attr)
    /\ pc' = "encoded"
    /\ UNCHANGED <<attr, decoded, stackVars, sgrVars, callVars, cursorVars, hostVars>>

Decode ==
    /\ pc = "encoded"
    /\ decoded' = SetFromLegacy(attr, word)
    /\ pc' = "decoded"
    /\ UNCHANGED <<attr, word, stackVars, sgrVars, callVars, cursorVars, hostVars>>

NextLegacy == Encode \/ Decode

SpecLegacy == InitLegacy /\ [][NextLegacy]_vars

\* a with the double-byte bits cleared
WithoutDbcs(a) == [a EXCEPT !.wAttrLegacy = ClearAllFlags(@, COMMON_LVB_SBCSDBCS)]

\* C9 as stated: SetFromLegacy(GetLegacyAttributes(a)) is a with the
\* double-byte bits cleared, for every a with legacy colour indices.
C9_RoundTrip == pc = "decoded" => decoded = WithoutDbcs(attr)

\* C9: SetFromLegacy(GetLegacyAttributes(a)) is a with the double-byte bits
\* cleared and, where a is bold, with the intensity bit set in the
\* foreground index; so it is a with the double-byte bits cleared exactly
\* when a is not bold or its foreground index has the intensity bit.
\* Boldness and the extended flags are kept in every case.
C9_RoundTripUnlessBold ==
    pc = "decoded" =>
        /\ decoded = [WithoutDbcs(attr) EXCEPT !.foreground =
                         TextColorIndex(BitOr(attr.foreground.value,
                                              IF attr.isBold THEN FOREGROUND_INTENSITY ELSE 0))]
        /\ (decoded = WithoutDbcs(attr)) <=>
              (~attr.isBold \/ IsFlagSet(attr.foreground.value, FOREGROUND_INTENSITY))

\* a bold attribute with a bright foreground, a background other than black
\* and a double-byte bit: the round trip clears that bit and nothing else
C9_Witness ==
    /\ pc = "decoded" /\ attr.isBold
    /\ IsFlagSet(attr.foreground.value, FOREGROUND_INTENSITY)
    /\ attr.background.value > 0
    /\ IsFlagSet(attr.wAttrLegacy, COMMON_LVB_LEADING_BYTE)
    /\ IsFlagSet(attr.wAttrLegacy, COMMON_LVB_UNDERSCORE)
    /\ decoded # attr /\ decoded = WithoutDbcs(attr)

(***************************************************************************)
(* Graphics rendition dispatch (SetGraphicsRendition): the options of one  *)
(* call are applied in order to the host's ambient attribute.              *)
(***************************************************************************)
GO_Off == 0
GO_UnBold == 22
GO_ForegroundBlack == 30
GO_ForegroundWhite == 37
GO_BackgroundBlack == 40
GO_BackgroundWhite == 47
GO_BrightForegroundBlack == 90
GO_BrightForegroundWhite == 97
GO_BrightBackgroundBlack == 100
GO_BrightBackgroundWhite == 107
GO_BlinkOrXterm256Index == 5
GO_NoUnderline == 24
GO_Positive == 27
GO_ForegroundExtended == 38
GO_ForegroundDefault == 39
GO_BackgroundExtended == 48
GO_BackgroundDefault == 49

\* the entries of the xterm colour table
XtermTableEntries == 0 .. 255

\* Xterm orders a colour's bits red, green, blue, bright; the legacy index
\* orders them blue, green, red, bright.
XtermToWindowsIndex(iXtermTableEntry) ==
    LET fRed == iXtermTableEntry % 2 = 1
        fGreen == (iXtermTableEntry \div 2) % 2 = 1
        fBlue == (iXtermTableEntry \div 4) % 2 = 1
        fBright == (iXtermTableEntry \div 8) % 2 = 1
    IN  (IF fRed THEN 4 ELSE 0) + (IF fGreen THEN 2 ELSE 0)
          + (IF fBlue THEN 1 ELSE 0) + (IF fBright THEN 8 ELSE 0)

\* the host's ambient attribute after PrepData: gray on black
FreshAttribute == SetFromLegacy(DefaultTextAttribute, 7)

ForegroundOptions == GO_ForegroundBlack .. GO_ForegroundWhite
BackgroundOptions == GO_BackgroundBlack .. GO_BackgroundWhite
BrightForegroundOptions == GO_BrightForegroundBlack .. GO_BrightForegroundWhite
BrightBackgroundOptions == GO_BrightBackgroundBlack .. GO_BrightBackgroundWhite

\* the host's flag after SetConsoleXtermTextAttribute
UsingRgbColor(iXtermTableEntry) == iXtermTableEntry > 16

\* the host's attribute after SetConsoleXtermTextAttribute
SetConsoleXtermTextAttribute(a, iXtermTableEntry, fIsForeground) ==
    IF UsingRgbColor(iXtermTableEntry) THEN a
    ELSE LET iWinEntry == XtermToWindowsIndex(iXtermTableEntry)
             legacyAttr == GetLegacyAttributes(a)
         IN  SetFromLegacy(a, IF fIsForeground
                              THEN BitOr(BitAnd(legacyAttr, BG_ATTRS), iWinEntry)
                              ELSE BitOr(iWinEntry * 16, BitAnd(legacyAttr, FG_ATTRS)))

\* the legacy word of a with one meta flag set or cleared
LegacyWith(a, flag, isSet) ==
    IF isSet THEN BitOr(GetLegacyAttributes(a), flag)
    ELSE ClearAllFlags(GetLegacyAttributes(a), flag)

\* one option applied to the ambient attribute
SetGraphicsOption(a, opt) ==
    IF opt = GO_Off
    THEN [Debolden(SetLegacyAttributes(SetDefaultBackground(SetDefaultForeground(a)),
                                       0, FALSE, FALSE, TRUE))
            EXCEPT !.extendedAttrs = {}]
    ELSE IF opt = GO_BoldBright THEN Embolden(a)
    ELSE IF opt = GO_UnBold THEN Debolden(a)
    ELSE IF opt = GO_Underline
    THEN SetLegacyAttributes(a, LegacyWith(a, COMMON_LVB_UNDERSCORE, TRUE), FALSE, FALSE, TRUE)
    ELSE IF opt = GO_NoUnderline
    THEN SetLegacyAttributes(a, LegacyWith(a, COMMON_LVB_UNDERSCORE, FALSE), FALSE, FALSE, TRUE)
    ELSE IF opt = GO_Negative
    THEN SetLegacyAttributes(a, LegacyWith(a, COMMON_LVB_REVERSE_VIDEO, TRUE), FALSE, FALSE, TRUE)
    ELSE IF opt = GO_Positive
    THEN SetLegacyAttributes(a, LegacyWith(a, COMMON_LVB_REVERSE_VIDEO, FALSE), FALSE, FALSE, TRUE)
    ELSE IF opt = GO_ForegroundDefault THEN SetDefaultForeground(a)
    ELSE IF opt = GO_BackgroundDefault THEN SetDefaultBackground(a)
    ELSE IF opt \in ForegroundOptions
    THEN SetLegacyAttributes(a, XtermToWindowsIndex(opt - GO_ForegroundBlack),
                             TRUE, FALSE, FALSE)
    ELSE IF opt \in BackgroundOptions
    THEN SetLegacyAttributes(a, XtermToWindowsIndex(opt - GO_BackgroundBlack) * 16,
                             FALSE, TRUE, FALSE)
    ELSE IF opt \in BrightForegroundOptions
    THEN SetLegacyAttributes(a, XtermToWindowsIndex(opt - GO_BrightForegroundBlack)
                                  + FOREGROUND_INTENSITY,
                             TRUE, FALSE, FALSE)
    ELSE IF opt \in BrightBackgroundOptions
    THEN SetLegacyAttributes(a, (XtermToWindowsIndex(opt - GO_BrightBackgroundBlack)
                                   + FOREGROUND_INTENSITY) * 16,
                             FALSE, TRUE, FALSE)
    ELSE a

\* rgOptions starts with the selection of a colour by its table entry
IsXtermSelection(rgOptions) ==
    /\ Len(rgOptions) >= 3
    /\ rgOptions[1] \in {GO_ForegroundExtended, GO_BackgroundExtended}
    /\ rgOptions[2] = GO_BlinkOrXterm256Index
    /\ rgOptions[3] \in XtermTableEntries

RECURSIVE SetGraphicsRendition(_, _)
SetGraphicsRendition(a, rgOptions) ==
    IF rgOptions = <<>> THEN a
    ELSE IF IsXtermSelection(rgOptions)
    THEN SetGraphicsRendition(
             SetConsoleXtermTextAttribute(a, rgOptions[3],
                                          rgOptions[1] = GO_ForegroundExtended),
             SubSeq(rgOptions, 4, Len(rgOptions)))
    ELSE SetGraphicsRendition(SetGraphicsOption(a, Head(rgOptions)), Tail(rgOptions))

(***************************************************************************)
(* SpecSgr: calls of SetGraphicsRendition with one or two options, from    *)
(* the fresh ambient attribute.                                            *)
(***************************************************************************)
BoldOptions == {GO_Off, GO_BoldBright, GO_UnBold}

ColourOptions ==
    ForegroundOptions \cup BackgroundOptions
      \cup BrightForegroundOptions \cup BrightBackgroundOptions

SgrOptions == BoldOptions \cup ColourOptions

SgrOptionLists ==
    {<<x>> : x \in SgrOptions} \cup {<<x, y>> : x \in SgrOptions, y \in SgrOptions}

\* the most recent of BoldOptions after rgOptions
RECURSIVE LastBoldOptionAfter(_, _)
LastBoldOptionAfter(last, rgOptions) ==
    IF rgOptions = <<>> THEN last
    ELSE LastBoldOptionAfter(IF Head(rgOptions) \in BoldOptions
                             THEN <<Head(rgOptions)>> ELSE last,
                             Tail(rgOptions))

\* whether a colour was selected after the most recent of BoldOptions
RECURSIVE ColourSinceAfter(_, _)
ColourSinceAfter(since, rgOptions) ==
    IF rgOptions = <<>> THEN since
    ELSE ColourSinceAfter(Head(rgOptions) \in ColourOptions
                            \/ (since /\ Head(rgOptions) \notin BoldOptions),
                          Tail(rgOptions))

InitSgr ==
    /\ IdleStack
    /\ IdleLegacy
    /\ IdleCall
    /\ IdleCursor /\ IdleHost
    /\ attribute = FreshAttribute
    /\ lastBoldOption = <<>>
    /\ colourSince = FALSE

DispatchSgr ==
    /\ \E rgOptions \in SgrOptionLists :
          /\ attribute' = SetGraphicsRendition(attribute, rgOptions)
          /\ lastBoldOption' = LastBoldOptionAfter(lastBoldOption, rgOptions)
          /\ colourSince' = ColourSinceAfter(colourSince, rgOptions)
    /\ UNCHANGED <<stackVars, legacyVars, callVars, cursorVars, hostVars>>

NextSgr == DispatchSgr

SpecSgr == InitSgr /\ [][NextSgr]_vars

\* C10: the ambient attribute is bold exactly when the most recent of
\* BoldBright, Off and UnBold applied to it is BoldBright, and no basic or
\* bright colour option changes its boldness.
C10_BoldPersistence ==
    /\ IsBold(attribute) <=> (lastBoldOption = <<GO_BoldBright>>)
    /\ \A c \in ColourOptions :
          IsBold(SetGraphicsRendition(attribute, <<c>>)) = IsBold(attribute)

\* bold after BoldBright and a basic foreground colour selected since; the
\* background is a bright colour
C10_Witness ==
    /\ lastBoldOption = <<GO_BoldBright>> /\ colourSince
    /\ IsBold(attribute)
    /\ attribute.foreground = TextColorIndex(2)
    /\ attribute.background.meta = "IsIndex"
    /\ IsFlagSet(attribute.background.value, FOREGROUND_INTENSITY)

(***************************************************************************)
(* SpecSgrCall: one call of SetGraphicsRendition, with one option or with  *)
(* the selection of a colour by its table entry, on an ambient attribute   *)
(* drawn from colours of every kind, both boldnesses and several meta      *)
(* flags.                                                                  *)
(***************************************************************************)
AmbientColours(legacy) ==
    {TextColorDefault, TextColorIndex(legacy), TextColorIndex(legacy + FOREGROUND_INTENSITY),
     TextColorRgb(255)}

AmbientMeta ==
    {0, COMMON_LVB_UNDERSCORE, COMMON_LVB_REVERSE_VIDEO + COMMON_LVB_GRID_HORIZONTAL,
     COMMON_LVB_UNDERSCORE + COMMON_LVB_REVERSE_VIDEO + COMMON_LVB_GRID_LVERTICAL}

AmbientAttrs ==
    {MkAttr(fg, bg, b, m, e) :
        fg \in AmbientColours(2), bg \in AmbientColours(1), b \in BOOLEAN,
        m \in AmbientMeta, e \in {{}, {"Italic"}}}

SingleOptions ==
    SgrOptions \cup {GO_Underline, GO_NoUnderline, GO_Negative, GO_Positive,
                     GO_ForegroundDefault, GO_BackgroundDefault}

\* the host's flag after a call with rgOptions
RECURSIVE UsingRgbAfter(_, _)
UsingRgbAfter(flag, rgOptions) ==
    IF rgOptions = <<>> THEN flag
    ELSE IF IsXtermSelection(rgOptions)
    THEN UsingRgbAfter(UsingRgbColor(rgOptions[3]), SubSeq(rgOptions, 4, Len(rgOptions)))
    ELSE UsingRgbAfter(flag, Tail(rgOptions))

InitSgrCall ==
    /\ IdleStack
    /\ IdleLegacy
    /\ IdleCursor /\ IdleHost
    /\ attribute \in AmbientAttrs
    /\ ambient = attribute
    /\ rendition = <<>>
    /\ fUsingRgbColor = FALSE
    /\ lastBoldOption = <<>>
    /\ colourSince = FALSE

Call(rgOptions) ==
    /\ rendition = <<>>
    /\ attribute' = SetGraphicsRendition(attribute, rgOptions)
    /\ ambient' = attribute
    /\ rendition' = rgOptions
    /\ fUsingRgbColor' = UsingRgbAfter(fUsingRgbColor, rgOptions)
    /\ UNCHANGED <<lastBoldOption, colourSince, stackVars, legacyVars, cursorVars, hostVars>>

CallOption == \E opt \in SingleOptions : Call(<<opt>>)

CallXterm ==
    \E channel \in {GO_ForegroundExtended, GO_BackgroundExtended}, i \in XtermTableEntries :
        Call(<<channel, GO_BlinkOrXterm256Index, i>>)

NextSgrCall == CallOption \/ CallXterm

SpecSgrCall == InitSgrCall /\ [][NextSgrCall]_vars

\* C11: after a call with the option Off the attribute has the default
\* foreground and background, no meta flag and no boldness, whatever the
\* ambient attribute was.
C11_OffResetsAll ==
    rendition = <<GO_Off>> => attribute = DefaultTextAttribute

\* Off applied to a bold attribute with colours and meta flags
C11_Witness ==
    /\ rendition = <<GO_Off>>
    /\ ambient.isBold /\ ambient.extendedAttrs # {}
    /\ ambient.foreground # TextColorDefault /\ ambient.background # TextColorDefault
    /\ IsUnderline(ambient) /\ IsReverseVideo(ambient)
    /\ attribute = DefaultTextAttribute

\* C12: a call with one option changes what the option names and nothing
\* else: a colour option the foreground or the background, Underline and
\* NoUnderline the underline bit, Negative and Positive the reverse-video
\* bit, ForegroundDefault and BackgroundDefault their channel.
C12_OnlyNamedBits ==
    Len(rendition) = 1 =>
        LET opt == rendition[1]
        IN  /\ opt \in ForegroundOptions \cup BrightForegroundOptions =>
                 /\ attribute = [ambient EXCEPT !.foreground = attribute.foreground]
                 /\ attribute.foreground.meta = "IsIndex"
                 /\ IsFlagSet(attribute.foreground.value, FOREGROUND_INTENSITY)
                      <=> opt \in BrightForegroundOptions
            /\ opt \in BackgroundOptions \cup BrightBackgroundOptions =>
                 /\ attribute = [ambient EXCEPT !.background = attribute.background]
                 /\ attribute.background.meta = "IsIndex"
                 /\ IsFlagSet(attribute.background.value, FOREGROUND_INTENSITY)
                      <=> opt \in BrightBackgroundOptions
            /\ opt \in {GO_Underline, GO_NoUnderline} =>
                 attribute = [ambient EXCEPT !.wAttrLegacy =
                                 UpdateFlag(@, COMMON_LVB_UNDERSCORE, opt = GO_Underline)]
            /\ opt \in {GO_Negative, GO_Positive} =>
                 attribute = [ambient EXCEPT !.wAttrLegacy =
                                 UpdateFlag(@, COMMON_LVB_REVERSE_VIDEO, opt = GO_Negative)]
            /\ opt = GO_ForegroundDefault =>
                 attribute = [ambient EXCEPT !.foreground = TextColorDefault]
            /\ opt = GO_BackgroundDefault =>
                 attribute = [ambient EXCEPT !.background = TextColorDefault]

\* a bright foreground selected on an attribute that is not bold, underlined,
\* with an RGB background: the foreground alone has changed
C12_Witness ==
    /\ Len(rendition) = 1 /\ rendition[1] \in BrightForegroundOptions
    /\ ~ambient.isBold /\ ~attribute.isBold
    /\ IsUnderline(ambient) /\ IsUnderline(attribute)
    /\ ambient.background.meta = "IsRgb" /\ attribute.background = ambient.background
    /\ attribute.foreground # ambient.foreground

\* the legacy index of each of the first 16 table entries, as the statement
\* lists them
LegacyIndexOfEntry == <<0, 4, 2, 6, 1, 5, 3, 7, 8, 12, 10, 14, 9, 13, 11, 15>>

\* what the statement asks of a call that selects the table entry i
XtermSelectionAsStated ==
    LET i == rendition[3]
        fIsForeground == rendition[1] = GO_ForegroundExtended
        Channel(a) == IF fIsForeground THEN a.foreground ELSE a.background
        Other(a) == IF fIsForeground THEN a.background ELSE a.foreground
    IN  /\ i < Len(LegacyIndexOfEntry) =>
              /\ Channel(attribute) = TextColorIndex(LegacyIndexOfEntry[i + 1])
              /\ ~fUsingRgbColor
        /\ i >= Len(LegacyIndexOfEntry) => fUsingRgbColor
        /\ Other(attribute) = Other(ambient)

\* C13: [ForegroundExtended | BackgroundExtended, BlinkOrXterm256Index, i]
\* makes the channel the legacy index with i's red and blue bits swapped for
\* i in 0..15, a colour that is not legacy for i in 16..255, and leaves the
\* other channel as it was.
C13_XtermSelection == Len(rendition) = 3 => XtermSelectionAsStated

\* The same for an ambient attribute that is not bold and has legacy colours
\* in both channels, and an entry other than 16.
C13_XtermSelectionLegacyAmbient ==
    (/\ Len(rendition) = 3
     /\ rendition[3] # Len(LegacyIndexOfEntry)
     /\ ~ambient.isBold
     /\ ambient.foreground.meta = "IsIndex" /\ ambient.background.meta = "IsIndex")
        => XtermSelectionAsStated

-----------------------------------------------------------------------------
\* Cursor verbs of AdaptDispatch against the host of the adapter tests.  The
\* host keeps the viewport and the cursor; a verb reads them, computes in
\* signed 16-bit coordinates and writes the cursor back.

SHRT_MAX == 32767

SHRT_MIN == 0 - SHRT_MAX - 1

\* UINT_MAX of the movement and position tests.  The model's integers are
\* signed 32-bit, so the value is the largest of them: like the 32-bit
\* UINT_MAX it is above every SHORT and its low 16 bits are all ones.
UINT_MAX == 2147483647

\* the number of values of a SHORT
ShortValues == 2 * (SHRT_MAX + 1)

\* v is representable as a SHORT
FitsShort(v) == v >= SHRT_MIN /\ v <= SHRT_MAX

\* the SHORT an int is narrowed to
ToShort(v) == ((v - SHRT_MIN) % ShortValues) + SHRT_MIN

\* TestGetSet::GetConsoleScreenBufferInfoEx: the viewport and the cursor
GetConsoleScreenBufferInfoEx(viewport, cursor) ==
    [srWindow |-> viewport, dwCursorPosition |-> cursor]

\* TestGetSet::SetConsoleCursorPosition: the cursor after the call
SetConsoleCursorPosition_Ignored(cursor, dwCursorPosition) == cursor

SetConsoleCursorPosition(cursor, dwCursorPosition) == dwCursorPosition

\* TestGetSet::MoveCursorVertically: the cursor after the call; the sum is
\* stored in a SHORT and is not held inside the viewport
MoveCursorVertically(cursor, lines) ==
    [X |-> cursor.X, Y |-> ToShort(cursor.Y + lines)]

\* what a verb returns, and the host's cursor after it
Failed(cursor) == [fSuccess |-> FALSE, coordCursorPos |-> cursor]

Moved(cursor) == [fSuccess |-> TRUE, coordCursorPos |-> cursor]

\* an unsigned value converts to a SHORT
UIntToShort_AnyWord(ui) == ui < ShortValues

UIntToShort(ui) == ui <= SHRT_MAX

Clamp_LowerOnly(v, lo, hi) == IF v < lo THEN lo ELSE v

Clamp_UpperOnly(v, lo, hi) == IF v > hi THEN hi ELSE v

Clamp(v, lo, hi) == IF v < lo THEN lo ELSE IF v > hi THEN hi ELSE v

\* CursorUp / CursorDown: one signed delta handed to the host
CursorUp(viewport, cursor, uiDistance) ==
    IF ~UIntToShort(uiDistance) THEN Failed(cursor)
    ELSE Moved(MoveCursorVertically(cursor, 0 - uiDistance))

CursorDown(viewport, cursor, uiDistance) ==
    IF ~UIntToShort(uiDistance) THEN Failed(cursor)
    ELSE Moved(MoveCursorVertically(cursor, uiDistance))

\* the locally computed moves: the named coordinate moved by delta and held
\* inside the viewport, the column first reset to the left edge if asked
CursorMovement(viewport, cursor, uiDistance, dx, dy, fResetColumn) ==
    IF ~UIntToShort(uiDistance) THEN Failed(cursor)
    ELSE LET csbiex == GetConsoleScreenBufferInfoEx(viewport, cursor)
             window == csbiex.srWindow
             from == csbiex.dwCursorPosition
             x == IF fResetColumn THEN window.Left
                  ELSE Clamp(from.X + dx * uiDistance, window.Left, window.Right - 1)
             y == IF dy = 0 THEN from.Y
                  ELSE Clamp(from.Y + dy * uiDistance, window.Top, window.Bottom - 1)
         IN  Moved(SetConsoleCursorPosition(cursor, [X |-> x, Y |-> y]))

CursorForward(viewport, cursor, uiDistance) ==
    CursorMovement(viewport, cursor, uiDistance, 1, 0, FALSE)

CursorBackward(viewport, cursor, uiDistance) ==
    CursorMovement(viewport, cursor, uiDistance, 0 - 1, 0, FALSE)

CursorNextLine(viewport, cursor, uiDistance) ==
    CursorMovement(viewport, cursor, uiDistance, 0, 1, TRUE)

CursorPrevLine(viewport, cursor, uiDistance) ==
    CursorMovement(viewport, cursor, uiDistance, 0, 0 - 1, TRUE)

\* one axis of an absolute position: 0 is not a position, the offset
\* uiValue - 1 must be a SHORT and so must its sum with the viewport's start
AxisAccepted_ZeroAsOne(start, uiValue) ==
    \/ uiValue = 0
    \/ /\ UIntToShort(uiValue - 1)
       /\ FitsShort(start + (uiValue - 1))

AxisAccepted_ZeroBased(start, uiValue) ==
    /\ UIntToShort(uiValue)
    /\ FitsShort(start + uiValue)

AxisAccepted_Wrapping(start, uiValue) ==
    /\ uiValue # 0
    /\ UIntToShort(uiValue - 1)

AxisAccepted(start, uiValue) ==
    /\ uiValue # 0
    /\ UIntToShort(uiValue - 1)
    /\ FitsShort(start + (uiValue - 1))

AxisPosition(start, end, uiValue) ==
    Clamp(ToShort(start + (uiValue - 1)), start, end - 1)

CursorPosition(viewport, cursor, uiLine, uiColumn) ==
    LET csbiex == GetConsoleScreenBufferInfoEx(viewport, cursor)
        window == csbiex.srWindow
    IN  IF AxisAccepted(window.Top, uiLine) /\ AxisAccepted(window.Left, uiColumn)
        THEN Moved(SetConsoleCursorPosition(cursor,
                 [X |-> AxisPosition(window.Left, window.Right, uiColumn),
                  Y |-> AxisPosition(window.Top, window.Bottom, uiLine)]))
        ELSE Failed(cursor)

CursorHorizontalPositionAbsolute(viewport, cursor, uiColumn) ==
    LET csbiex == GetConsoleScreenBufferInfoEx(viewport, cursor)
        window == csbiex.srWindow
    IN  IF AxisAccepted(window.Left, uiColumn)
        THEN Moved(SetConsoleCursorPosition(cursor,
                 [X |-> AxisPosition(window.Left, window.Right, uiColumn),
                  Y |-> csbiex.dwCursorPosition.Y]))
        ELSE Failed(cursor)

VerticalLinePositionAbsolute(viewport, cursor, uiLine) ==
    LET csbiex == GetConsoleScreenBufferInfoEx(viewport, cursor)
        window == csbiex.srWindow
    IN  IF AxisAccepted(window.Top, uiLine)
        THEN Moved(SetConsoleCursorPosition(cursor,
                 [X |-> csbiex.dwCursorPosition.X,
                  Y |-> AxisPosition(window.Top, window.Bottom, uiLine)]))
        ELSE Failed(cursor)

-----------------------------------------------------------------------------
\* SpecCursor: the host is prepared with a viewport and a cursor, and one
\* cursor verb is called.

\* TestGetSet::PrepData: the viewport in the middle of the buffer
PrepDataViewport == [Left |-> 30, Top |-> 20, Right |-> 59, Bottom |-> 49]

\* the same viewport moved to the end of the SHORT range, the nearest valid
\* viewport to the one of "Overflow during addition"
FarViewport ==
    [Left |-> SHRT_MAX - (PrepDataViewport.Right - PrepDataViewport.Left),
     Top |-> SHRT_MAX - (PrepDataViewport.Bottom - PrepDataViewport.Top),
     Right |-> SHRT_MAX, Bottom |-> SHRT_MAX]

Viewports == {PrepDataViewport, FarViewport}

\* the coordinate the over/underflow test puts the cursor at, on either side
OffsetOutside == 10

\* TestGetSet::PrepCursor: LEFT, XCENTER, RIGHT and TOP, YCENTER, BOTTOM,
\* the column and row next to the edge, and the coordinates outside
CursorColumns(viewport) ==
    {viewport.Left, viewport.Left + 1,
     viewport.Left + ((viewport.Right - viewport.Left) \div 2),
     viewport.Right - 1, OffsetOutside, 0 - OffsetOutside}

CursorRows(viewport) ==
    {viewport.Top, viewport.Top + 1,
     viewport.Top + ((viewport.Bottom - viewport.Top) \div 2),
     viewport.Bottom - 1, OffsetOutside, 0 - OffsetOutside}

InViewport(viewport, cursor) ==
    /\ cursor.X >= viewport.Left /\ cursor.X <= viewport.Right - 1
    /\ cursor.Y >= viewport.Top /\ cursor.Y <= viewport.Bottom - 1

\* the distances of the movement tests, and the ends of the SHORT range
Distances == {0, 1, 2, 100, SHRT_MAX, SHRT_MAX + 1, UINT_MAX}

\* the rows and columns of the position tests: 0, the first, the middle, the
\* last, past the end, twice the extent, and the values too large
Positions ==
    LET extent == PrepDataViewport.Right - PrepDataViewport.Left
    IN  {0, 1, 2, 5, extent \div 2, extent, extent + 1, extent + 2, 2 * extent,
         SHRT_MAX, SHRT_MAX + 1, UINT_MAX}

InitCursor ==
    /\ IdleStack /\ IdleLegacy /\ IdleSgr /\ IdleCall /\ IdleHost
    /\ srViewport \in Viewports
    /\ coordCursorPos \in [X : CursorColumns(srViewport), Y : CursorRows(srViewport)]
    /\ verb = <<>>
    /\ coordBefore = coordCursorPos
    /\ fSuccess = TRUE

\* one verb called: the host's cursor and the returned value afterwards
Dispatch(name, args, outcome) ==
    /\ verb = <<>>
    /\ verb' = <<name>> \o args
    /\ coordBefore' = coordCursorPos
    /\ coordCursorPos' = outcome.coordCursorPos
    /\ fSuccess' = outcome.fSuccess
    /\ UNCHANGED <<srViewport, stackVars, legacyVars, sgrVars, callVars, hostVars>>

DoCursorUp ==
    \E d \in Distances :
        Dispatch("CursorUp", <<d>>, CursorUp(srViewport, coordCursorPos, d))

DoCursorDown ==
    \E d \in Distances :
        Dispatch("CursorDown", <<d>>, CursorDown(srViewport, coordCursorPos, d))

DoCursorForward ==
    \E d \in Distances :
        Dispatch("CursorForward", <<d>>, CursorForward(srViewport, coordCursorPos, d))

DoCursorBackward ==
    \E d \in Distances :
        Dispatch("CursorBackward", <<d>>, CursorBackward(srViewport, coordCursorPos, d))

DoCursorNextLine ==
    \E d \in Distances :
        Dispatch("CursorNextLine", <<d>>, CursorNextLine(srViewport, coordCursorPos, d))

DoCursorPrevLine ==
    \E d \in Distances :
        Dispatch("CursorPrevLine", <<d>>, CursorPrevLine(srViewport, coordCursorPos, d))

DoCursorPosition ==
    \E line \in Positions, column \in Positions :
        Dispatch("CursorPosition", <<line, column>>,
                 CursorPosition(srViewport, coordCursorPos, line, column))

DoCursorHorizontalPositionAbsolute ==
    \E column \in Positions :
        Dispatch("CursorHorizontalPositionAbsolute", <<column>>,
                 CursorHorizontalPositionAbsolute(srViewport, coordCursorPos, column))

DoVerticalLinePositionAbsolute ==
    \E line \in Positions :
        Dispatch("VerticalLinePositionAbsolute", <<line>>,
                 VerticalLinePositionAbsolute(srViewport, coordCursorPos, line))

NextCursor ==
    \/ DoCursorUp
    \/ DoCursorDown
    \/ DoCursorForward
    \/ DoCursorBackward
    \/ DoCursorNextLine
    \/ DoCursorPrevLine
    \/ DoCursorPosition
    \/ DoCursorHorizontalPositionAbsolute
    \/ DoVerticalLinePositionAbsolute

SpecCursor == InitCursor /\ [][NextCursor]_vars

\* the verb called, its arguments, and the kinds of verb
Called(name) == verb # <<>> /\ verb[1] = name

RelativeVerbs == {"CursorUp", "CursorDown", "CursorForward", "CursorBackward",
                  "CursorNextLine", "CursorPrevLine"}

CalledRelative == verb # <<>> /\ verb[1] \in RelativeVerbs

\* C14: a relative cursor verb called with a distance that is not
\* representable as a signed 16-bit delta returns failure and leaves the
\* cursor exactly where it was.
C14_UnrepresentableDistance ==
    (CalledRelative /\ verb[2] > SHRT_MAX)
        => (~fSuccess /\ coordCursorPos = coordBefore)

\* CursorNextLine(UINT_MAX) from a cursor that is not in the first column and
\* not on the last row: it failed and the cursor is where it was.
C14_Witness ==
    /\ Called("CursorNextLine") /\ verb[2] = UINT_MAX
    /\ InViewport(srViewport, coordBefore)
    /\ coordBefore.X # srViewport.Left
    /\ coordBefore.Y # srViewport.Bottom - 1
    /\ ~fSuccess
    /\ coordCursorPos = coordBefore

\* C15: after a successful CursorForward or CursorBackward from a cursor
\* inside the viewport the column lies in [viewportLeft, viewportRight - 1]
\* and the row is unchanged; moving left from the left edge or right from the
\* right edge by a representable positive distance leaves the cursor where it
\* was.
C15_HorizontalClamp ==
    ((Called("CursorForward") \/ Called("CursorBackward"))
      /\ InViewport(srViewport, coordBefore))
        => /\ fSuccess =>
                  /\ coordCursorPos.X >= srViewport.Left
                  /\ coordCursorPos.X <= srViewport.Right - 1
                  /\ coordCursorPos.Y = coordBefore.Y
           /\ (/\ verb[2] >= 1 /\ verb[2] <= SHRT_MAX
               /\ \/ Called("CursorBackward") /\ coordBefore.X = srViewport.Left
                  \/ Called("CursorForward") /\ coordBefore.X = srViewport.Right - 1)
                  => coordCursorPos = coordBefore

\* CursorBackward(100) from the middle of the viewport: it succeeded and the
\* cursor is in the first column of the same row.
C15_Witness ==
    /\ Called("CursorBackward") /\ verb[2] = 100
    /\ InViewport(srViewport, coordBefore)
    /\ coordBefore.X = srViewport.Left + ((srViewport.Right - srViewport.Left) \div 2)
    /\ fSuccess
    /\ coordCursorPos = [X |-> srViewport.Left, Y |-> coordBefore.Y]

\* the row moved by delta and held in [viewportTop, viewportBottom - 1]
RowHeld(row, delta) ==
    LET moved == row + delta
    IN  IF moved < srViewport.Top THEN srViewport.Top
        ELSE IF moved > srViewport.Bottom - 1 THEN srViewport.Bottom - 1
        ELSE moved

CalledAbsolute(name, value) == Called(name) /\ verb[2] = value

C18_ZeroRejected ==
    (\/ CalledAbsolute("CursorPosition", 0) /\ verb[3] = 0
     \/ CalledAbsolute("CursorHorizontalPositionAbsolute", 0)
     \/ CalledAbsolute("VerticalLinePositionAbsolute", 0))
        => (~fSuccess /\ coordCursorPos = coordBefore)

\* CursorPosition(0, 0) from the middle of the viewport: it failed and the
\* cursor is still in the middle, not at the top-left.
C18_Witness ==
    /\ CalledAbsolute("CursorPosition", 0) /\ verb[3] = 0
    /\ InViewport(srViewport, coordBefore)
    /\ coordBefore.X # srViewport.Left /\ coordBefore.Y # srViewport.Top
    /\ ~fSuccess
    /\ coordCursorPos = coordBefore

\* value is a position (1 or more) whose offset from start is a SHORT
OffsetFits(start, value) == value >= 1 /\ value - 1 <= SHRT_MAX - start

\* the coordinate of position value on an axis: start + value - 1, or the
\* last coordinate of the viewport if that is less
Placed(start, end, value) ==
    IF value - 1 <= (end - 1) - start THEN start + (value - 1) ELSE end - 1

OffsetOverflows(start, value) == value >= 1 /\ value - 1 > SHRT_MAX - start

\* C20: absolute positioning fails and leaves the cursor unchanged whenever
\* viewport origin + (value - 1) is not representable as a signed 16-bit
\* number, for a value too large in itself and for a small value added to an
\* origin near SHRT_MAX; the coordinate never wraps around.
C20_OffsetOverflow ==
    (\/ /\ Called("CursorPosition")
        /\ \/ OffsetOverflows(srViewport.Top, verb[2])
           \/ OffsetOverflows(srViewport.Left, verb[3])
     \/ /\ Called("CursorHorizontalPositionAbsolute")
        /\ OffsetOverflows(srViewport.Left, verb[2])
     \/ /\ Called("VerticalLinePositionAbsolute")
        /\ OffsetOverflows(srViewport.Top, verb[2]))
        => (~fSuccess /\ coordCursorPos = coordBefore)

\* VerticalLinePositionAbsolute of the second row past the viewport's end,
\* with the viewport ending at SHRT_MAX and the cursor in its middle: the
\* call failed and the cursor did not move.
C20_Witness ==
    LET extent == srViewport.Bottom - srViewport.Top
    IN  /\ srViewport = FarViewport
        /\ CalledAbsolute("VerticalLinePositionAbsolute", extent + 2)
        /\ coordBefore.Y = srViewport.Top + (extent \div 2)
        /\ InViewport(srViewport, coordBefore)
        /\ ~fSuccess
        /\ coordCursorPos = coordBefore

-----------------------------------------------------------------------------
\* CursorSaveState and CursorRestoreState of AdaptDispatch.  The dispatcher
\* keeps the cursor as a 1-based row and column of the viewport together with
\* the full attribute, and hands both back to the host on restore.

\* TestGetSet::PrivateGetTextAttributes: the host's attribute
PrivateGetTextAttributes(hostAttribute) == hostAttribute

\* TestGetSet::PrivateSetTextAttributes: the host's attribute after the call
PrivateSetTextAttributes_Ignored(hostAttribute, attributes) == hostAttribute

PrivateSetTextAttributes(hostAttribute, attributes) == attributes

CursorSaveState_Absolute(viewport, cursor, hostAttribute) ==
    [Row |-> cursor.Y, Column |-> cursor.X,
     Attributes |-> PrivateGetTextAttributes(hostAttribute)]

CursorSaveState(viewport, cursor, hostAttribute) ==
    LET csbiex == GetConsoleScreenBufferInfoEx(viewport, cursor)
    IN  [Row |-> csbiex.dwCursorPosition.Y - csbiex.srWindow.Top + 1,
         Column |-> csbiex.dwCursorPosition.X - csbiex.srWindow.Left + 1,
         Attributes |-> PrivateGetTextAttributes(hostAttribute)]

\* the host's cursor and attribute after CursorRestoreState, and what it
\* returns
CursorRestoreState(viewport, cursor, hostAttribute, saved) ==
    LET csbiex == GetConsoleScreenBufferInfoEx(viewport, cursor)
        coordCursor == [X |-> csbiex.srWindow.Left + (saved.Column - 1),
                        Y |-> csbiex.srWindow.Top + (saved.Row - 1)]
    IN  [fSuccess |-> TRUE,
         coordCursorPos |-> SetConsoleCursorPosition(cursor, coordCursor),
         attribute |-> PrivateSetTextAttributes(hostAttribute, saved.Attributes)]

-----------------------------------------------------------------------------
\* SpecSession: a dispatcher and its host over a few verbs: cursor moves,
\* renditions, CursorSaveState and CursorRestoreState in any order.

MaxSessionSteps == 5

\* an attribute with something in every field
AttrSession ==
    MkAttr(TextColorRgb(255), TextColorIndex(1), TRUE,
           COMMON_LVB_UNDERSCORE, {"Italic"})

SessionAttrs == {FreshAttribute, AttrSession}

\* TestGetSet::PrepCursor: LEFT, XCENTER, RIGHT and TOP, YCENTER, BOTTOM
PrepCursorColumns(viewport) ==
    {viewport.Left,
     viewport.Left + ((viewport.Right - viewport.Left) \div 2),
     viewport.Right - 1}

PrepCursorRows(viewport) ==
    {viewport.Top,
     viewport.Top + ((viewport.Bottom - viewport.Top) \div 2),
     viewport.Bottom - 1}

SessionRenditions == {<<GO_BoldBright>>, <<GO_ForegroundBlack + 1>>, <<GO_Off>>}

InitSession ==
    /\ IdleStack /\ IdleLegacy /\ IdleCall /\ IdleHost
    /\ srViewport = PrepDataViewport
    /\ coordCursorPos \in [X : PrepCursorColumns(srViewport),
                           Y : PrepCursorRows(srViewport)]
    /\ verb = <<>>
    /\ coordBefore = coordCursorPos
    /\ fSuccess = TRUE
    /\ attribute \in SessionAttrs
    /\ lastBoldOption = <<>>
    /\ colourSince = FALSE

\* one verb called in the session
SessionStep(called) ==
    /\ steps < MaxSessionSteps
    /\ steps' = steps + 1
    /\ verb' = called
    /\ coordBefore' = coordCursorPos
    /\ UNCHANGED <<srViewport, lastBoldOption, colourSince,
                   stackVars, legacyVars, callVars, marginVars, ioVars, resolved>>

\* the record of the most recent save after the host's cursor and attribute
\* have become cursor and hostAttribute
Since(cursor, hostAttribute) ==
    IF savedAt = <<>> THEN savedAt
    ELSE <<[savedAt[1] EXCEPT
              !.moved = @ \/ cursor # savedAt[1].coordCursorPos,
              !.rendered = @ \/ hostAttribute # savedAt[1].attribute]>>

SessionMove(name, outcome) ==
    /\ SessionStep(<<name>>)
    /\ coordCursorPos' = outcome.coordCursorPos
    /\ fSuccess' = outcome.fSuccess
    /\ savedAt' = Since(outcome.coordCursorPos, attribute)
    /\ UNCHANGED <<attribute, savedCursorState>>

SessionCursorPosition ==
    SessionMove("CursorPosition", CursorPosition(srViewport, coordCursorPos, 2, 2))

SessionCursorForward ==
    SessionMove("CursorForward", CursorForward(srViewport, coordCursorPos, 1))

SessionCursorDown ==
    SessionMove("CursorDown", CursorDown(srViewport, coordCursorPos, 1))

SessionRendition ==
    \E rgOptions \in SessionRenditions :
        /\ SessionStep(<<"SetGraphicsRendition">>)
        /\ attribute' = SetGraphicsRendition(attribute, rgOptions)
        /\ fSuccess' = TRUE
        /\ savedAt' = Since(coordCursorPos, SetGraphicsRendition(attribute, rgOptions))
        /\ UNCHANGED <<coordCursorPos, savedCursorState>>

SessionSave ==
    /\ SessionStep(<<"CursorSaveState">>)
    /\ savedCursorState' = CursorSaveState(srViewport, coordCursorPos, attribute)
    /\ savedAt' = <<[coordCursorPos |-> coordCursorPos, attribute |-> attribute,
                      moved |-> FALSE, rendered |-> FALSE]>>
    /\ fSuccess' = TRUE
    /\ UNCHANGED <<coordCursorPos, attribute>>

\* the second element of the verb tells a restore that follows a restore
SessionRestore ==
    LET outcome == CursorRestoreState(srViewport, coordCursorPos, attribute,
                                      savedCursorState)
    IN  /\ SessionStep(<<"CursorRestoreState",
                         IF verb # <<>> /\ verb[1] = "CursorRestoreState"
                         THEN 2 ELSE 1>>)
        /\ coordCursorPos' = outcome.coordCursorPos
        /\ attribute' = outcome.attribute
        /\ fSuccess' = outcome.fSuccess
        /\ UNCHANGED <<savedCursorState, savedAt>>

NextSession ==
    \/ SessionCursorPosition
    \/ SessionCursorForward
    \/ SessionCursorDown
    \/ SessionRendition
    \/ SessionSave
    \/ SessionRestore

SpecSession == InitSession /\ [][NextSession]_vars

\* C21: CursorRestoreState with no CursorSaveState ever made succeeds, moves
\* the cursor to the viewport's top-left corner and sets the ambient
\* attribute to the default TextAttribute, whatever they were.
C21_RestoreWithoutSave ==
    (Called("CursorRestoreState") /\ savedAt = <<>>)
        => /\ fSuccess
           /\ coordCursorPos = [X |-> srViewport.Left, Y |-> srViewport.Top]
           /\ attribute = DefaultTextAttribute

\* CursorRestoreState as the first verb, with the cursor in the middle of the
\* viewport: the cursor is at the top-left and the attribute is the default.
C21_Witness ==
    /\ Called("CursorRestoreState") /\ savedAt = <<>> /\ steps = 1
    /\ coordBefore = [X |-> srViewport.Left + ((srViewport.Right - srViewport.Left) \div 2),
                      Y |-> srViewport.Top + ((srViewport.Bottom - srViewport.Top) \div 2)]
    /\ fSuccess
    /\ coordCursorPos = [X |-> srViewport.Left, Y |-> srViewport.Top]
    /\ attribute = DefaultTextAttribute

\* C22: after CursorSaveState, cursor moves and renditions, and then
\* CursorRestoreState, the cursor and the full attribute are those of the
\* most recent save; a second restore changes nothing.
C22_SaveRestore ==
    (Called("CursorRestoreState") /\ savedAt # <<>>)
        => /\ fSuccess
           /\ coordCursorPos = savedAt[1].coordCursorPos
           /\ attribute = savedAt[1].attribute

\* save, a move and a rendition that change both, and two restores: the
\* cursor and the attribute are those of the save.
C22_Witness ==
    /\ Called("CursorRestoreState") /\ verb[2] = 2
    /\ savedAt # <<>>
    /\ savedAt[1].moved /\ savedAt[1].rendered
    /\ savedAt[1].attribute = AttrSession
    /\ coordCursorPos = savedAt[1].coordCursorPos
    /\ attribute = AttrSession
    /\ coordBefore = coordCursorPos

-----------------------------------------------------------------------------
\* SetTopBottomScrollingMargins of AdaptDispatch: a zero bound is filled in
\* from the viewport, the bounds are checked, the region is handed to the
\* host in 0-based lines (or cleared when it is the whole viewport), and the
\* cursor is moved home.

MarginTop(uiTop) == IF uiTop = 0 THEN 1 ELSE uiTop

MarginBottom(uiBottom, sScreenHeight) ==
    IF uiBottom = 0 THEN sScreenHeight ELSE uiBottom

MarginsValid_EqualAllowed(uiTop, uiBottom, sScreenHeight) ==
    /\ UIntToShort(uiTop) /\ UIntToShort(uiBottom)
    /\ MarginTop(uiTop) <= MarginBottom(uiBottom, sScreenHeight)
    /\ MarginBottom(uiBottom, sScreenHeight) <= sScreenHeight

MarginsValid(uiTop, uiBottom, sScreenHeight) ==
    /\ UIntToShort(uiTop) /\ UIntToShort(uiBottom)
    /\ MarginTop(uiTop) < MarginBottom(uiBottom, sScreenHeight)
    /\ MarginBottom(uiBottom, sScreenHeight) <= sScreenHeight

MarginsToSet_WholeViewportKept(uiTop, uiBottom, sScreenHeight) ==
    [Top |-> MarginTop(uiTop) - 1,
     Bottom |-> MarginBottom(uiBottom, sScreenHeight) - 1]

MarginsToSet(uiTop, uiBottom, sScreenHeight) ==
    IF MarginTop(uiTop) = 1 /\ MarginBottom(uiBottom, sScreenHeight) = sScreenHeight
    THEN NoScrollMargins
    ELSE [Top |-> MarginTop(uiTop) - 1,
          Bottom |-> MarginBottom(uiBottom, sScreenHeight) - 1]

\* TestGetSet::PrivateSetScrollingRegion: the region the host has afterwards
PrivateSetScrollingRegion(region, psrScrollMargins) == psrScrollMargins

SetTopBottomScrollingMargins(viewport, cursor, region, uiTop, uiBottom) ==
    LET csbiex == GetConsoleScreenBufferInfoEx(viewport, cursor)
        sScreenHeight == csbiex.srWindow.Bottom - csbiex.srWindow.Top
    IN  IF ~MarginsValid(uiTop, uiBottom, sScreenHeight)
        THEN [fSuccess |-> FALSE, coordCursorPos |-> cursor,
              srScrollMargins |-> region]
        ELSE LET home == CursorPosition(viewport, cursor, 1, 1)
             IN  [fSuccess |-> home.fSuccess,
                  coordCursorPos |-> home.coordCursorPos,
                  srScrollMargins |->
                      PrivateSetScrollingRegion(region,
                          MarginsToSet(uiTop, uiBottom, sScreenHeight))]

-----------------------------------------------------------------------------
\* SpecMargins: margins set and set again, with the cursor moved in between.

MaxMarginSteps == 3

\* the viewport of ScrollMarginsTest: 8 lines from the buffer's origin
MarginsTestViewport == [Left |-> 0, Top |-> 0, Right |-> 8, Bottom |-> 8]

MarginViewports == {MarginsTestViewport, PrepDataViewport}

\* the bounds of ScrollMarginsTest, for a viewport of the given height
MarginValues(sScreenHeight) ==
    {0, 1, 2, 4, 6, sScreenHeight, sScreenHeight + 1, UINT_MAX}

ViewportHeight == srViewport.Bottom - srViewport.Top

InitMargins ==
    /\ IdleStack /\ IdleLegacy /\ IdleSgr /\ IdleCall
    /\ IdleSaved /\ IdleMargins /\ IdleIo
    /\ srViewport \in MarginViewports
    /\ coordCursorPos =
           [X |-> srViewport.Left + ((srViewport.Right - srViewport.Left) \div 2),
            Y |-> srViewport.Top + ((srViewport.Bottom - srViewport.Top) \div 2)]
    /\ verb = <<>>
    /\ coordBefore = coordCursorPos
    /\ fSuccess = TRUE

MarginsStep(called, outcome) ==
    /\ steps < MaxMarginSteps
    /\ steps' = steps + 1
    /\ verb' = called
    /\ coordBefore' = coordCursorPos
    /\ marginsBefore' = srScrollMargins
    /\ coordCursorPos' = outcome.coordCursorPos
    /\ fSuccess' = outcome.fSuccess
    /\ UNCHANGED <<srViewport, savedCursorState, savedAt, ioVars, resolved,
                   stackVars, legacyVars, sgrVars, callVars>>

MarginsSet ==
    \E uiTop \in MarginValues(ViewportHeight), uiBottom \in MarginValues(ViewportHeight) :
        LET outcome == SetTopBottomScrollingMargins(srViewport, coordCursorPos,
                                                    srScrollMargins, uiTop, uiBottom)
        IN  /\ MarginsStep(<<"SetTopBottomScrollingMargins", uiTop, uiBottom>>, outcome)
            /\ srScrollMargins' = outcome.srScrollMargins

MarginsCursorForward ==
    /\ MarginsStep(<<"CursorForward", 1>>, CursorForward(srViewport, coordCursorPos, 1))
    /\ UNCHANGED srScrollMargins

NextMargins == MarginsSet \/ MarginsCursorForward

SpecMargins == InitMargins /\ [][NextMargins]_vars

\* the four ways of asking for the whole viewport
WholeViewportAsked ==
    /\ Called("SetTopBottomScrollingMargins")
    /\ verb[2] \in {0, 1}
    /\ verb[3] \in {0, ViewportHeight}

\* C23: SetTopBottomScrollingMargins with (0,0), (1,0), (1,height) or
\* (0,height) succeeds and leaves the host with no scrolling region, whatever
\* margins earlier calls set.
C23_WholeViewportClears ==
    WholeViewportAsked => (fSuccess /\ srScrollMargins = NoScrollMargins)

\* margins were in force, and (1, height) cleared them
C23_Witness ==
    /\ WholeViewportAsked
    /\ verb[2] = 1 /\ verb[3] = ViewportHeight
    /\ marginsBefore = [Top |-> 1, Bottom |-> 5]
    /\ fSuccess
    /\ srScrollMargins = NoScrollMargins

\* the bounds asked for are not acceptable once a zero bound is filled in
BadMarginsAsked ==
    /\ Called("SetTopBottomScrollingMargins")
    /\ LET top == IF verb[2] = 0 THEN 1 ELSE verb[2]
           bottom == IF verb[3] = 0 THEN ViewportHeight ELSE verb[3]
       IN  \/ top >= bottom
           \/ top > ViewportHeight
           \/ bottom > ViewportHeight

\* C24: SetTopBottomScrollingMargins(top, bottom) returns failure and changes
\* neither the scrolling region nor the cursor when, after a zero bound has
\* been filled in, top >= bottom or a bound is outside [1, height]; earlier
\* margins stay in force.
C24_BadMarginsRejected ==
    BadMarginsAsked
        => /\ ~fSuccess
           /\ srScrollMargins = marginsBefore
           /\ coordCursorPos = coordBefore

\* margins (2, 6) in force and the cursor moved off home, then (4, 4): the
\* call failed, the region is still lines 1 to 5 and the cursor stayed.
C24_Witness ==
    /\ BadMarginsAsked
    /\ verb[2] = 4 /\ verb[3] = 4
    /\ marginsBefore = [Top |-> 1, Bottom |-> 5]
    /\ coordBefore # [X |-> srViewport.Left, Y |-> srViewport.Top]
    /\ ~fSuccess
    /\ srScrollMargins = marginsBefore
    /\ coordCursorPos = coordBefore

(***************************************************************************)
(* Host calls that report failure.  Every call of TestGetSet returns its   *)
(* result flag and changes the host only when the flag is set; a verb      *)
(* gives up at the first call that reports failure and returns false.      *)
(***************************************************************************)
HostCalls ==
    {"GetConsoleScreenBufferInfoEx", "SetConsoleCursorPosition",
     "MoveCursorVertically", "PrivateGetConsoleScreenBufferLegacyAttributes",
     "PrivateSetDefaultAttributes", "PrivateSetLegacyAttributes",
     "PrivateBoldText", "PrivateSetTextAttributes",
     "PrivateSetScrollingRegion"}

\* the state of the host that verbs change
HostState(cursor, hostAttribute, region) ==
    [coordCursorPos |-> cursor, attribute |-> hostAttribute,
     srScrollMargins |-> region]

\* one host call of a verb, with the host's state after it if it succeeds
HostCall(call, host) == [call |-> call, host |-> host]

\* The calls of a verb made in order against a host whose calls in failed
\* report failure: what the verb returns and the state the host is left in.
RECURSIVE RunHostCalls(_, _, _)
RunHostCalls(failed, host, calls) ==
    IF calls = <<>> THEN [fSuccess |-> TRUE, host |-> host]
    ELSE IF Head(calls).call \in failed THEN [fSuccess |-> FALSE, host |-> host]
    ELSE RunHostCalls(failed, Head(calls).host, Tail(calls))

\* CursorUp(1): the delta handed to the host
CursorUpCalls(viewport, host) ==
    <<HostCall("MoveCursorVertically",
               [host EXCEPT !.coordCursorPos =
                    CursorUp(viewport, host.coordCursorPos, 1).coordCursorPos])>>

\* CursorForward(1): the viewport and cursor read, the new position set
CursorForwardCalls(viewport, host) ==
    <<HostCall("GetConsoleScreenBufferInfoEx", host),
      HostCall("SetConsoleCursorPosition",
               [host EXCEPT !.coordCursorPos =
                    CursorForward(viewport, host.coordCursorPos, 1).coordCursorPos])>>

\* CursorPosition(2, 2)
CursorPositionCalls(viewport, host) ==
    <<HostCall("GetConsoleScreenBufferInfoEx", host),
      HostCall("SetConsoleCursorPosition",
               [host EXCEPT !.coordCursorPos =
                    CursorPosition(viewport, host.coordCursorPos, 2, 2).coordCursorPos])>>

\* SetGraphicsRendition([Off]): the legacy attributes read, then the default
\* colours, the meta bits and the boldness each by a call of its own
GraphicsOffCalls(host) ==
    LET defaulted == SetDefaultBackground(SetDefaultForeground(host.attribute))
        plain == SetLegacyAttributes(defaulted, 0, FALSE, FALSE, TRUE)
        off == [Debolden(plain) EXCEPT !.extendedAttrs = {}]
    IN  <<HostCall("PrivateGetConsoleScreenBufferLegacyAttributes", host),
          HostCall("PrivateSetDefaultAttributes", [host EXCEPT !.attribute = defaulted]),
          HostCall("PrivateSetLegacyAttributes", [host EXCEPT !.attribute = plain]),
          HostCall("PrivateBoldText", [host EXCEPT !.attribute = off])>>

\* CursorRestoreState: the cursor set, then the attributes
CursorRestoreStateCalls(viewport, host, saved) ==
    LET restored == CursorRestoreState(viewport, host.coordCursorPos,
                                       host.attribute, saved)
        placed == [host EXCEPT !.coordCursorPos = restored.coordCursorPos]
    IN  <<HostCall("GetConsoleScreenBufferInfoEx", host),
          HostCall("SetConsoleCursorPosition", placed),
          HostCall("PrivateSetTextAttributes",
                   [placed EXCEPT !.attribute = restored.attribute])>>

\* SetTopBottomScrollingMargins with acceptable bounds: the region set, then
\* the cursor sent home by CursorPosition(1, 1)
SetTopBottomScrollingMarginsCalls(viewport, host, uiTop, uiBottom) ==
    LET set == SetTopBottomScrollingMargins(viewport, host.coordCursorPos,
                                            host.srScrollMargins, uiTop, uiBottom)
        regioned == [host EXCEPT !.srScrollMargins = set.srScrollMargins]
    IN  <<HostCall("GetConsoleScreenBufferInfoEx", host),
          HostCall("PrivateSetScrollingRegion", regioned),
          HostCall("GetConsoleScreenBufferInfoEx", regioned),
          HostCall("SetConsoleCursorPosition",
                   [regioned EXCEPT !.coordCursorPos = set.coordCursorPos])>>

\* the names of the calls made: those up to the first that reports failure
RECURSIVE CallsMade(_, _)
CallsMade(failed, calls) ==
    IF calls = <<>> THEN <<>>
    ELSE IF Head(calls).call \in failed THEN <<Head(calls).call>>
    ELSE <<Head(calls).call>> \o CallsMade(failed, Tail(calls))

-----------------------------------------------------------------------------
\* SpecFailure: verbs called against a host some of whose calls report
\* failure; which ones is set anew before every verb, as the tests set the
\* result flags.

MaxFailureSteps == 2

\* no call fails, one does, or all do
FailureSets == {{}} \cup {{call} : call \in HostCalls} \cup {HostCalls}

\* the saved state CursorRestoreState returns to: row 3, column 4, bold
FailureSavedState ==
    [Row |-> 3, Column |-> 4, Attributes |-> Embolden(FreshAttribute)]

InitFailure ==
    /\ IdleStack /\ IdleLegacy /\ IdleCall
    /\ lastBoldOption = <<>> /\ colourSince = FALSE
    /\ attribute \in SessionAttrs
    /\ srViewport = PrepDataViewport
    /\ coordCursorPos = [X |-> srViewport.Left + 10, Y |-> srViewport.Top + 10]
    /\ verb = <<>> /\ coordBefore = coordCursorPos /\ fSuccess = TRUE
    /\ savedCursorState = FailureSavedState /\ savedAt = <<>> /\ steps = 0
    /\ resolved = <<>>
    /\ IdleMargins /\ IdleIo

\* one verb, given by its name, arguments and host calls
FailureStep(called, calls) ==
    \E failed \in FailureSets :
        LET host == HostState(coordCursorPos, attribute, srScrollMargins)
            r == RunHostCalls(failed, host, calls)
        IN  /\ steps < MaxFailureSteps
            /\ steps' = steps + 1
            /\ failing' = failed
            /\ verb' = called
            /\ made' = CallsMade(failed, calls)
            /\ coordBefore' = coordCursorPos
            /\ ambient' = attribute
            /\ marginsBefore' = srScrollMargins
            /\ fSuccess' = r.fSuccess
            /\ coordCursorPos' = r.host.coordCursorPos
            /\ attribute' = r.host.attribute
            /\ srScrollMargins' = r.host.srScrollMargins
            /\ UNCHANGED <<stackVars, legacyVars, lastBoldOption, colourSince,
                           rendition, fUsingRgbColor, srViewport,
                           savedCursorState, savedAt, resolved,
                           events, eventsBefore, colorTableEntry, fIsPty>>

FailureCursorUp ==
    FailureStep(<<"CursorUp", 1>>,
                CursorUpCalls(srViewport,
                              HostState(coordCursorPos, attribute, srScrollMargins)))

FailureCursorForward ==
    FailureStep(<<"CursorForward", 1>>,
                CursorForwardCalls(srViewport,
                                   HostState(coordCursorPos, attribute, srScrollMargins)))

FailureCursorPosition ==
    FailureStep(<<"CursorPosition", 2, 2>>,
                CursorPositionCalls(srViewport,
                                    HostState(coordCursorPos, attribute, srScrollMargins)))

FailureGraphicsOff ==
    FailureStep(<<"SetGraphicsRendition", GO_Off>>,
                GraphicsOffCalls(HostState(coordCursorPos, attribute, srScrollMargins)))

FailureRestore ==
    FailureStep(<<"CursorRestoreState">>,
                CursorRestoreStateCalls(srViewport,
                                        HostState(coordCursorPos, attribute, srScrollMargins),
                                        savedCursorState))

FailureMargins ==
    FailureStep(<<"SetTopBottomScrollingMargins", 2, 6>>,
                SetTopBottomScrollingMarginsCalls(
                    srViewport,
                    HostState(coordCursorPos, attribute, srScrollMargins), 2, 6))

NextFailure ==
    \/ FailureCursorUp
    \/ FailureCursorForward
    \/ FailureCursorPosition
    \/ FailureGraphicsOff
    \/ FailureRestore
    \/ FailureMargins

SpecFailure == InitFailure /\ [][NextFailure]_vars

\* a host call the last verb made reported failure
HostCallFailed == \E i \in 1 .. Len(made) : made[i] \in failing

\* the last verb changed nothing in the host
HostUntouched ==
    /\ coordCursorPos = coordBefore
    /\ attribute = ambient
    /\ srScrollMargins = marginsBefore

\* C25: whenever a host call made by a verb reports failure, the verb
\* returns failure and the host's cursor, ambient attribute and scrolling
\* region are what they were before the verb, also for the verbs that make
\* several changing calls (SGR Off, CursorRestoreState, margins).
C25_NoPartialEffect == HostCallFailed => (~fSuccess /\ HostUntouched)

\* The verb returns failure in every such case, and the host is untouched
\* whenever the call that failed is not preceded by one that changed it.
C25_FailureReported ==
    HostCallFailed
        => /\ ~fSuccess
           /\ (verb[1] \in {"CursorUp", "CursorForward", "CursorPosition"}
                 => HostUntouched)

(***************************************************************************)
(* SpecUnknown: options that are not implemented, alone and among options  *)
(* that are: one Push on the empty ring stack, a change of the current     *)
(* attribute and Pop; and one call of SetGraphicsRendition.                *)
(***************************************************************************)
\* stack options that name nothing: inside the bitset but not in the
\* enumeration, and past the end of the bitset
UnknownStackOptions == ((AttrBitsetAll \ SavableOptions) \cap {6}) \cup InvalidOptions

KnownStackOptions == {Opt_Boldness, Opt_Negative, Opt_SaveForegroundColor}

UnknownOptionLists ==
    {<<u>> : u \in UnknownStackOptions}
      \cup {<<u, k>> : u \in UnknownStackOptions, k \in KnownStackOptions}
      \cup {<<k, u>> : u \in UnknownStackOptions, k \in KnownStackOptions}
      \cup {<<k, u, l>> : u \in UnknownStackOptions,
                          k \in KnownStackOptions, l \in KnownStackOptions}

\* rendition options this layer gives no meaning to
UnknownGraphicsOptions == {6, 99}

KnownGraphicsOptions == {GO_Off, GO_BoldBright, GO_Underline, GO_ForegroundBlack + 1}

UnknownRenditions ==
    {<<u>> : u \in UnknownGraphicsOptions}
      \cup {<<u, k>> : u \in UnknownGraphicsOptions, k \in KnownGraphicsOptions}
      \cup {<<k, u, l>> : u \in UnknownGraphicsOptions,
                          k \in KnownGraphicsOptions, l \in KnownGraphicsOptions}

InitUnknown ==
    /\ \E a \in PartialAttrs : StackStart("types", a)
    /\ IdleLegacy /\ IdleCursor /\ IdleHost
    /\ attribute = AttrSession
    /\ ambient = attribute
    /\ rendition = <<>>
    /\ fUsingRgbColor = FALSE
    /\ lastBoldOption = <<>>
    /\ colourSince = FALSE

UnknownPush == lastOp = "none" /\ TypesPush(UnknownOptionLists, c_MaxStoredSgrPushes)

UnknownChange == lastOp = "push" /\ Change(PartialAttrs, MaxChanges)

UnknownPop == lastOp # "pop" /\ TypesPop(FALSE)

UnknownRendition == \E rgOptions \in UnknownRenditions : Call(rgOptions)

NextUnknown ==
    \/ UnknownPush
    \/ UnknownChange
    \/ UnknownPop
    \/ UnknownRendition

SpecUnknown == InitUnknown /\ [][NextUnknown]_vars

\* a list of options without those of a set
Without(list, unknown) == SelectSeq(list, LAMBDA o : o \notin unknown)

\* the Pop that matches a Push whose options included unknown ones
UnknownPopped ==
    /\ impl = "types" /\ lastOp = "pop" /\ level = 1 /\ expected # <<>>
    /\ expected[1].options \in UnknownOptionLists

\* C26: options that are not implemented are ignored and are no errors.  A
\* Push given stack options outside the enumeration is counted, and its Pop
\* restores exactly the sub-attributes the other options of the list name;
\* SetGraphicsRendition given an option code it does not implement leaves
\* the attribute as the other options of the list, applied in order, make it.
C26_UnknownIgnored ==
    /\ (lastOp = "push" /\ options \in UnknownOptionLists) => tstack.numSavedAttrs = 1
    /\ UnknownPopped =>
          LET a == expected[1].attr
              S == OptionSet(Without(expected[1].options, UnknownStackOptions))
          IN  /\ \A o \in SavableOptions :
                   SubAttribute(result, o) =
                      IF o \in S THEN SubAttribute(a, o) ELSE SubAttribute(arg, o)
              /\ Unsaved(result) = Unsaved(arg)
    /\ rendition # <<>> =>
          attribute = SetGraphicsRendition(ambient, Without(rendition, UnknownGraphicsOptions))

\* Push([Boldness, 23, SaveForegroundColor]) restored the boldness and the
\* foreground and left the background; [BoldBright, 99, Off] left the
\* attribute as Off does, the last option of the list
C26_Witness ==
    /\ UnknownPopped
    /\ expected[1].options = <<Opt_Boldness, AttrBitsetSize + 1, Opt_SaveForegroundColor>>
    /\ result.isBold = expected[1].attr.isBold /\ result.isBold # arg.isBold
    /\ result.foreground = expected[1].attr.foreground
    /\ result.foreground # arg.foreground
    /\ result.background = arg.background
    /\ result.background # expected[1].attr.background
    /\ rendition = <<GO_BoldBright, 99, GO_Off>>
    /\ ambient = AttrSession
    /\ attribute = DefaultTextAttribute

(***************************************************************************)
(* Status reports: DeviceStatusReport answers through the host's input:    *)
(* the response is injected as key events, a key down and a key up for     *)
(* each character.                                                         *)
(***************************************************************************)
CPR_CursorPositionReport == 6

DecimalDigits == <<"0", "1", "2", "3", "4", "5", "6", "7", "8", "9">>

\* a number as %d writes it
RECURSIVE FormatDecimal(_)
FormatDecimal(n) ==
    IF n < 0 THEN <<"-">> \o FormatDecimal(0 - n)
    ELSE IF n < Len(DecimalDigits) THEN <<DecimalDigits[n + 1]>>
    ELSE FormatDecimal(n \div Len(DecimalDigits))
            \o <<DecimalDigits[(n % Len(DecimalDigits)) + 1]>>

\* Mutant of CursorPositionReport: the column before the line.
CursorPositionReport_ColumnFirst(viewport, cursor) ==
    LET csbiex == GetConsoleScreenBufferInfoEx(viewport, cursor)
    IN  <<"ESC", "[">>
          \o FormatDecimal(csbiex.dwCursorPosition.X - csbiex.srWindow.Left + 1)
          \o <<";">>
          \o FormatDecimal(csbiex.dwCursorPosition.Y - csbiex.srWindow.Top + 1)
          \o <<"R">>

\* the characters of the cursor position report: ESC [ line ; column R,
\* both counted from 1 at the viewport's top left
CursorPositionReport(viewport, cursor) ==
    LET csbiex == GetConsoleScreenBufferInfoEx(viewport, cursor)
    IN  <<"ESC", "[">>
          \o FormatDecimal(csbiex.dwCursorPosition.Y - csbiex.srWindow.Top + 1)
          \o <<";">>
          \o FormatDecimal(csbiex.dwCursorPosition.X - csbiex.srWindow.Left + 1)
          \o <<"R">>

\* the key events of a response: each character down, then up
KeyEvents(response) ==
    [i \in 1 .. 2 * Len(response) |->
        [CharData |-> response[(i + 1) \div 2], KeyDown |-> i % 2 = 1]]

\* TestGetSet::PrivatePrependConsoleInput: the events the host holds afterwards
PrivatePrependConsoleInput(hostEvents, inEvents) == inEvents

\* what DeviceStatusReport returns, the events the host holds after it and
\* the host calls it made
DeviceStatusReport(viewport, cursor, hostEvents, statusType) ==
    IF statusType = CPR_CursorPositionReport
    THEN [fSuccess |-> TRUE,
          events |-> PrivatePrependConsoleInput(
                         hostEvents, KeyEvents(CursorPositionReport(viewport, cursor))),
          made |-> <<"GetConsoleScreenBufferInfoEx", "PrivatePrependConsoleInput">>]
    ELSE [fSuccess |-> FALSE, events |-> hostEvents, made |-> <<>>]

-----------------------------------------------------------------------------
\* SpecReport: status reports asked for between moves of the cursor; a move
\* up may take the cursor above the viewport.

MaxReportSteps == 3

\* the status type of the test (-1) and others without a report
UnrecognisedStatusTypes == {0 - 1, 0, CPR_CursorPositionReport + 1}

ReportDistances == {1, 20}

InitReport ==
    /\ IdleStack /\ IdleLegacy /\ IdleSgr /\ IdleCall
    /\ IdleSaved /\ IdleMargins /\ IdleIo
    /\ srViewport \in {PrepDataViewport, MarginsTestViewport}
    /\ coordCursorPos \in
          {[X |-> x, Y |-> y] : x \in PrepCursorColumns(srViewport),
                                y \in PrepCursorRows(srViewport)}
    /\ verb = <<>>
    /\ coordBefore = coordCursorPos
    /\ fSuccess = TRUE

ReportStep(called, cursor, ok, hostEvents, calls) ==
    /\ steps < MaxReportSteps
    /\ steps' = steps + 1
    /\ verb' = called
    /\ coordBefore' = coordCursorPos
    /\ coordCursorPos' = cursor
    /\ fSuccess' = ok
    /\ eventsBefore' = events
    /\ events' = hostEvents
    /\ made' = calls
    /\ UNCHANGED <<stackVars, legacyVars, sgrVars, callVars, srViewport,
                   savedCursorState, savedAt, resolved, marginVars,
                   failing, colorTableEntry, fIsPty>>

ReportStatus ==
    \E statusType \in {CPR_CursorPositionReport} \cup UnrecognisedStatusTypes :
        LET r == DeviceStatusReport(srViewport, coordCursorPos, events, statusType)
        IN  ReportStep(<<"DeviceStatusReport", statusType>>, coordCursorPos,
                       r.fSuccess, r.events, r.made)

ReportCursorUp ==
    \E d \in ReportDistances :
        LET r == CursorUp(srViewport, coordCursorPos, d)
        IN  ReportStep(<<"CursorUp", d>>, r.coordCursorPos, r.fSuccess, events,
                       <<"MoveCursorVertically">>)

ReportCursorForward ==
    \E d \in ReportDistances :
        LET r == CursorForward(srViewport, coordCursorPos, d)
        IN  ReportStep(<<"CursorForward", d>>, r.coordCursorPos, r.fSuccess, events,
                       <<"GetConsoleScreenBufferInfoEx", "SetConsoleCursorPosition">>)

NextReport == ReportStatus \/ ReportCursorUp \/ ReportCursorForward

SpecReport == InitReport /\ [][NextReport]_vars

\* the events are key down and key up of one character after another
WellTyped(inEvents) ==
    /\ Len(inEvents) % 2 = 0
    /\ \A i \in 1 .. Len(inEvents) :
          /\ inEvents[i].KeyDown = (i % 2 = 1)
          /\ inEvents[i].CharData = inEvents[2 * ((i + 1) \div 2) - 1].CharData

\* the characters the events type
Typed(inEvents) == [i \in 1 .. (Len(inEvents) \div 2) |-> inEvents[2 * i - 1].CharData]

IsDecimal(chars) ==
    /\ chars # <<>>
    /\ \A i \in 1 .. Len(chars) :
          \E v \in 1 .. Len(DecimalDigits) : DecimalDigits[v] = chars[i]

\* the number a string of digits, with or without a sign, reads as
RECURSIVE DecimalValue(_)
DecimalValue(chars) ==
    IF chars = <<>> THEN 0
    ELSE IF Head(chars) = "-" THEN 0 - DecimalValue(Tail(chars))
    ELSE LET last == chars[Len(chars)]
             v == CHOOSE d \in 1 .. Len(DecimalDigits) : DecimalDigits[d] = last
         IN  DecimalValue(SubSeq(chars, 1, Len(chars) - 1)) * Len(DecimalDigits) + (v - 1)

Unsigned(chars) == IF chars # <<>> /\ Head(chars) = "-" THEN Tail(chars) ELSE chars

\* chars is one response ESC [ r ; c R
IsPositionReport(chars, r, c) ==
    /\ Len(chars) >= 6
    /\ chars[1] = "ESC" /\ chars[2] = "[" /\ chars[Len(chars)] = "R"
    /\ \A i \in 2 .. Len(chars) : chars[i] # "ESC"
    /\ \E k \in 4 .. (Len(chars) - 2) :
          /\ chars[k] = ";"
          /\ IsDecimal(Unsigned(SubSeq(chars, 3, k - 1)))
          /\ IsDecimal(Unsigned(SubSeq(chars, k + 1, Len(chars) - 1)))
          /\ DecimalValue(SubSeq(chars, 3, k - 1)) = r
          /\ DecimalValue(SubSeq(chars, k + 1, Len(chars) - 1)) = c

\* C27: DeviceStatusReport(cursor position report) succeeds, leaves the
\* cursor where it was and injects exactly one response ESC [ r ; c R with
\* r = cursorY - viewportTop + 1 and c = cursorX - viewportLeft + 1; with a
\* status type that is not recognised it returns failure and injects nothing.
C27_CursorPositionReport ==
    Called("DeviceStatusReport") =>
        /\ coordCursorPos = coordBefore
        /\ IF verb[2] = CPR_CursorPositionReport
           THEN /\ fSuccess
                /\ WellTyped(events)
                /\ IsPositionReport(Typed(events),
                                    coordCursorPos.Y - srViewport.Top + 1,
                                    coordCursorPos.X - srViewport.Left + 1)
                /\ Len(SelectSeq(made, LAMBDA call : call = "PrivatePrependConsoleInput")) = 1
           ELSE /\ ~fSuccess
                /\ events = eventsBefore
                /\ \A i \in 1 .. Len(made) : made[i] # "PrivatePrependConsoleInput"

\* the cursor in line 15 and column 16 of the viewport after a move forward:
\* the response is ESC [ 1 5 ; 1 6 R, where an earlier report had another
\* column
C27_Witness ==
    /\ Called("DeviceStatusReport")
    /\ verb[2] = CPR_CursorPositionReport
    /\ fSuccess
    /\ srViewport = PrepDataViewport
    /\ coordCursorPos = [X |-> srViewport.Left + 15, Y |-> srViewport.Top + 14]
    /\ Typed(events) = <<"ESC", "[", "1", "5", ";", "1", "6", "R">>
    /\ eventsBefore # <<>> /\ eventsBefore # events

\* a report was injected, then a status type that is not recognised was
\* asked for: failure, and the host still holds the earlier events
C27_WitnessUnrecognised ==
    /\ Called("DeviceStatusReport")
    /\ verb[2] = 0 - 1
    /\ ~fSuccess
    /\ events # <<>> /\ events = eventsBefore

(***************************************************************************)
(* The colour table: SetColorTableEntry hands an entry of the xterm table  *)
(* to the host's setter and asks the host whether it is a pty.             *)
(***************************************************************************)
\* the entries that have a legacy index
LegacyTableSize == 16

\* Mutant of ColorTableIndex: the xterm entry as the host's index.
ColorTableIndex_Unswapped(tableIndex) == tableIndex

\* the host's index of an xterm table entry
ColorTableIndex(tableIndex) ==
    IF tableIndex < LegacyTableSize THEN XtermToWindowsIndex(tableIndex) ELSE tableIndex

\* TestGetSet::PrivateSetColorTableEntry: the call the host received
PrivateSetColorTableEntry(index, value) == <<index, value>>

\* TestGetSet::IsConsolePty: isPty after the call; it is written only when
\* the call succeeds
IsConsolePty(failed, isPty, hostIsPty) ==
    IF "IsConsolePty" \in failed THEN isPty ELSE hostIsPty

\* what SetColorTableEntry returns, the call the setter received and the
\* host calls made: the setter is called first, then the host is asked
\* whether it is a pty, and a pty makes the verb return false
SetColorTableEntry(failed, hostIsPty, tableIndex, dwColor) ==
    LET fSet == "PrivateSetColorTableEntry" \notin failed
        isPty == IsConsolePty(failed, FALSE, hostIsPty)
    IN  [fSuccess |-> fSet /\ ~isPty,
         colorTableEntry |-> PrivateSetColorTableEntry(ColorTableIndex(tableIndex), dwColor),
         made |-> <<"PrivateSetColorTableEntry", "IsConsolePty">>]

-----------------------------------------------------------------------------
\* SpecColorTable: entries set one after another on a host whose pty mode
\* and result flags change in between.

\* RGB(1, 2, 3)
TestColor == 1 + 2 * 256 + 3 * 65536

TableColors == {TestColor, 0}

\* every entry with a legacy index, the first two without and the last
TableEntries == (0 .. (LegacyTableSize + 1)) \cup {Cardinality(XtermTableEntries) - 1}

ColorTableFailureSets == {{}, {"IsConsolePty"}, {"PrivateSetColorTableEntry"}}

InitColorTable ==
    /\ IdleStack /\ IdleLegacy /\ IdleSgr /\ IdleCall /\ IdleCursor
    /\ IdleSaved /\ IdleMargins
    /\ failing = {"IsConsolePty"}
    /\ made = <<>>
    /\ events = <<>> /\ eventsBefore = <<>>
    /\ colorTableEntry = <<>>
    /\ fIsPty = FALSE

\* the test sets the host's flags between calls; no verb has been called on
\* the host as it is then
ColorTableHost ==
    /\ \E failed \in ColorTableFailureSets, isPty \in BOOLEAN :
          /\ <<failed, isPty>> # <<failing, fIsPty>>
          /\ failing' = failed
          /\ fIsPty' = isPty
    /\ verb' = <<>>
    /\ made' = <<>>
    /\ UNCHANGED <<stackVars, legacyVars, sgrVars, callVars,
                   srViewport, coordCursorPos, coordBefore, fSuccess,
                   savedCursorState, savedAt, resolved, steps, marginVars,
                   events, eventsBefore, colorTableEntry>>

ColorTableSet ==
    \E tableIndex \in TableEntries, dwColor \in TableColors :
        LET r == SetColorTableEntry(failing, fIsPty, tableIndex, dwColor)
        IN  /\ verb' = <<"SetColorTableEntry", tableIndex, dwColor>>
            /\ fSuccess' = r.fSuccess
            /\ colorTableEntry' = r.colorTableEntry
            /\ made' = r.made
            /\ UNCHANGED <<stackVars, legacyVars, sgrVars, callVars,
                           srViewport, coordCursorPos, coordBefore,
                           savedCursorState, savedAt, resolved, steps, marginVars,
                           failing, events, eventsBefore, fIsPty>>

NextColorTable == ColorTableHost \/ ColorTableSet

SpecColorTable == InitColorTable /\ [][NextColorTable]_vars

\* the host reports pty mode
ReportsPty == fIsPty /\ "IsConsolePty" \notin failing

\* i with the bits of red (1) and blue (4) exchanged
RedBlueSwapped(i) ==
    LET red == i % 2
        blue == (i \div 4) % 2
    IN  i - red - 4 * blue + 4 * red + blue

\* C28: SetColorTableEntry(i, colour) hands the host's setter the index i
\* with its red and blue bits exchanged when i < 16 and i itself when
\* 16 <= i < 256, with the colour; when the host reports pty mode the verb
\* returns failure, and the setter has still been called with that index
\* and colour.
C28_ColorTableEntry ==
    Called("SetColorTableEntry") =>
        LET i == verb[2]
        IN  /\ \E k \in 1 .. Len(made) : made[k] = "PrivateSetColorTableEntry"
            /\ colorTableEntry = <<IF i < Len(LegacyIndexOfEntry)
                                   THEN RedBlueSwapped(i) ELSE i, verb[3]>>
            /\ i < Len(LegacyIndexOfEntry) => colorTableEntry[1] = LegacyIndexOfEntry[i + 1]
            /\ ReportsPty => ~fSuccess
            /\ (~ReportsPty /\ "PrivateSetColorTableEntry" \notin failing) => fSuccess

\* the last case of the test: entry 15 in pty mode after entry 1 was set to
\* index 4: failure, and the setter received index 15 and the colour
C28_Witness ==
    /\ Called("SetColorTableEntry")
    /\ verb = <<"SetColorTableEntry", LegacyTableSize - 1, TestColor>>
    /\ ReportsPty
    /\ ~fSuccess
    /\ colorTableEntry = <<LegacyTableSize - 1, TestColor>>

\* entry 1 outside pty mode: success, host index 4
C28_WitnessSwapped ==
    /\ verb = <<"SetColorTableEntry", 1, TestColor>>
    /\ ~ReportsPty
    /\ fSuccess
    /\ colorTableEntry = <<4, TestColor>>

(***************************************************************************)
(* SpecResolve: colours set on an attribute, its boldness and reverse      *)
(* video changed, and the attribute resolved to the colours displayed,     *)
(* with default colours chosen at each resolution.                         *)
(***************************************************************************)
MaxResolutions == 2

\* a colour table with 256 different colours
ResolveColorTable == [i \in XtermTableEntries |-> 65536 + 257 * i]

\* the default foreground and background passed to a resolution: white on
\* black, or silver on navy
DefaultColors == {<<16777215, 0>>, <<12632256, 128>>}

\* a legacy word with foreground 1 and background 2
ResolveLegacyWords == {1 + 2 * 16}

InitResolve ==
    /\ IdleStack /\ IdleSgr /\ IdleCall /\ IdleCursor /\ IdleHost
    /\ attr \in {DefaultTextAttribute, AttrSession}
    /\ word = 0
    /\ decoded = DefaultTextAttribute
    /\ pc = <<>>

\* a setter of one channel's colour was called
ColourSet(name, fIsForeground, after) ==
    /\ attr' = after
    /\ pc' = <<name, fIsForeground,
               IF fIsForeground THEN ForegroundIsDefault(attr)
               ELSE BackgroundIsDefault(attr)>>
    /\ resolved' = <<>>
    /\ UNCHANGED <<word, decoded, stackVars, sgrVars, callVars, cursorVars,
                   savedCursorState, savedAt, steps, marginVars, ioVars>>

ResolveSetDefault ==
    \/ ColourSet("SetDefaultForeground", TRUE, SetDefaultForeground(attr))
    \/ ColourSet("SetDefaultBackground", FALSE, SetDefaultBackground(attr))

ResolveSetLegacy ==
    \E w \in ResolveLegacyWords, fIsForeground \in BOOLEAN :
        ColourSet("SetLegacyAttributes", fIsForeground,
                  SetLegacyAttributes(attr, w, fIsForeground, ~fIsForeground, FALSE))

ResolveSetIndexed ==
    \E i \in {256 + 3}, fIsForeground \in BOOLEAN :
        ColourSet("SetIndexedAttributes", fIsForeground,
                  IF fIsForeground THEN SetIndexedAttributes(attr, <<i>>, <<>>)
                  ELSE SetIndexedAttributes(attr, <<>>, <<i>>))

ResolveSetColor ==
    \E fIsForeground \in BOOLEAN :
        ColourSet("SetColor", fIsForeground, SetColor(attr, TestColor, fIsForeground))

\* boldness set or cleared; the resolutions made so far are kept
ResolveSetBoldness ==
    /\ attr' = SetBoldness(attr, ~attr.isBold)
    /\ UNCHANGED <<word, decoded, pc, resolved, stackVars, sgrVars, callVars,
                   cursorVars, savedCursorState, savedAt, steps, marginVars, ioVars>>

ResolveInvert ==
    /\ attr' = Invert(attr)
    /\ resolved' = <<>>
    /\ UNCHANGED <<word, decoded, pc, stackVars, sgrVars, callVars,
                   cursorVars, savedCursorState, savedAt, steps, marginVars, ioVars>>

Resolve ==
    /\ Len(resolved) < MaxResolutions
    /\ \E defaults \in DefaultColors :
          LET defaultFgColor == defaults[1]
              defaultBgColor == defaults[2]
          IN  resolved' = Append(resolved,
                  [attr |-> attr,
                   defaultFgColor |-> defaultFgColor,
                   defaultBgColor |-> defaultBgColor,
                   foreground |-> CalculateRgbForeground(attr, ResolveColorTable,
                                                         defaultFgColor, defaultBgColor),
                   background |-> CalculateRgbBackground(attr, ResolveColorTable,
                                                         defaultFgColor, defaultBgColor)])
    /\ UNCHANGED <<legacyVars, stackVars, sgrVars, callVars, cursorVars,
                   savedCursorState, savedAt, steps, marginVars, ioVars>>

NextResolve ==
    \/ ResolveSetDefault
    \/ ResolveSetLegacy
    \/ ResolveSetIndexed
    \/ ResolveSetColor
    \/ ResolveSetBoldness
    \/ ResolveInvert
    \/ Resolve

SpecResolve == InitResolve /\ [][NextResolve]_vars

\* the setters that put a colour on a channel
ColourSetters == {"SetLegacyAttributes", "SetIndexedAttributes", "SetColor"}

\* the colour a resolution displays for the foreground channel, and for the
\* background channel: reverse video shows each in the other's place
ShownOfForeground(r) == IF IsReverseVideo(r.attr) THEN r.background ELSE r.foreground

ShownOfBackground(r) == IF IsReverseVideo(r.attr) THEN r.foreground ELSE r.background

C29_WitnessSet ==
    /\ pc = <<"SetIndexedAttributes", FALSE, TRUE>>
    /\ ~BackgroundIsDefault(attr)
    /\ attr.background = TextColorIndex(3)

\* two resolutions of attributes that differ in boldness only, with the
\* same default colours
BoldnessOnly(r, q) ==
    /\ r.attr.isBold /\ ~q.attr.isBold
    /\ r.attr = SetBoldness(q.attr, TRUE)
    /\ r.defaultFgColor = q.defaultFgColor
    /\ r.defaultBgColor = q.defaultBgColor

\* the colour of a text colour when it is brightened
Brightened(color, defaultColor) == GetColor(color, ResolveColorTable, defaultColor, TRUE)

\* what the statement asks of a bold resolution r and the resolution q of
\* the same attribute without boldness
BoldBrightensShownForeground(r, q) ==
    /\ r.background = q.background
    /\ r.foreground =
          IF IsReverseVideo(r.attr)
          THEN Brightened(r.attr.background, r.defaultBgColor)
          ELSE Brightened(r.attr.foreground, r.defaultFgColor)

\* C30: boldness brightens the displayed foreground only: with reverse
\* video clear or set, CalculateRgbBackground returns the same colour
\* whether the attribute is bold or not, and CalculateRgbForeground returns
\* the brightened colour.
C30_BoldForegroundOnly ==
    \A i, j \in 1 .. Len(resolved) :
        BoldnessOnly(resolved[i], resolved[j])
            => BoldBrightensShownForeground(resolved[i], resolved[j])

\* The same for attributes without reverse video.
C30_BoldForegroundOnlyUnreversed ==
    \A i, j \in 1 .. Len(resolved) :
        (BoldnessOnly(resolved[i], resolved[j]) /\ ~IsReverseVideo(resolved[i].attr))
            => BoldBrightensShownForeground(resolved[i], resolved[j])

\* With reverse video it is the displayed background that boldness
\* brightens, and the displayed foreground is the same bold or not.
C30_ReversedBrightensBackground ==
    \A i, j \in 1 .. Len(resolved) :
        (BoldnessOnly(resolved[i], resolved[j]) /\ IsReverseVideo(resolved[i].attr))
            => /\ resolved[i].foreground = resolved[j].foreground
               /\ resolved[i].background =
                     Brightened(resolved[i].attr.foreground, resolved[i].defaultFgColor)

\* foreground index 1 and background index 2 under reverse video, resolved
\* bold and not bold: the displayed background is entry 9 of the table when
\* bold and entry 1 when not, and the displayed foreground is entry 2 in both
C30_WitnessReversed ==
    /\ Len(resolved) = 2
    /\ BoldnessOnly(resolved[2], resolved[1])
    /\ IsReverseVideo(attr)
    /\ attr.foreground = TextColorIndex(1) /\ attr.background = TextColorIndex(2)
    /\ resolved[1].background = ResolveColorTable[1]
    /\ resolved[2].background = ResolveColorTable[1 + FOREGROUND_INTENSITY]
    /\ resolved[1].foreground = ResolveColorTable[2]
    /\ resolved[2].foreground = ResolveColorTable[2]

\* the same colours without reverse video: boldness brightens the displayed
\* foreground and leaves the displayed background
C30_WitnessUnreversed ==
    /\ Len(resolved) = 2
    /\ BoldnessOnly(resolved[2], resolved[1])
    /\ ~IsReverseVideo(attr)
    /\ attr.foreground = TextColorIndex(1) /\ attr.background = TextColorIndex(2)
    /\ resolved[1].foreground = ResolveColorTable[1]
    /\ resolved[2].foreground = ResolveColorTable[1 + FOREGROUND_INTENSITY]
    /\ resolved[1].background = resolved[2].background

(***************************************************************************)
(* Pushes past the capacity of the ring stack of types/sgrStack.cpp.       *)
(***************************************************************************)
\* a Push on the ring stack made with c_MaxStoredSgrPushes or more outstanding
OverflowPush ==
    impl = "types" /\ outstanding >= c_MaxStoredSgrPushes
      /\ TypesPush({<<>>}, MaxOutstandingTypes)

\* the Pop that matches such a push
OverflowPop ==
    impl = "types" /\ outstanding > c_MaxStoredSgrPushes /\ TypesPop(FALSE)

\* C31: in types/sgrStack.cpp a Push made while c_MaxStoredSgrPushes or more
\* pushes are outstanding is counted but not stored: it overwrites no stored
\* entry, and the Pop that matches it returns the current attributes
\* unchanged.
C31_OverflowPush ==
    [][/\ OverflowPush =>
            /\ tstack'.storedSgrAttributes = tstack.storedSgrAttributes
            /\ tstack'.numSavedAttrs = tstack.numSavedAttrs + 1
       /\ OverflowPop => result' = cur]_vars

\* what the ring does instead: the push replaces the entry at the push index
\* and the count of saved entries never passes the capacity
C31_RingOverwrites ==
    [][OverflowPush =>
          /\ tstack'.storedSgrAttributes[tstack.nextPushIndex].TextAttributes = cur
          /\ tstack'.numSavedAttrs <= c_MaxStoredSgrPushes]_vars

(***************************************************************************)
(* SpecRing: K > c_MaxStoredSgrPushes full pushes on the ring stack of     *)
(* types/sgrStack.cpp, the caller choosing the current attribute before    *)
(* each, then pops only.  Here shadow records every push, so that its last *)
(* element is the most recent push not yet popped, and pops counts the     *)
(* pops made.  Once the retained entries have been popped the caller       *)
(* changes the current attribute again.                                    *)
(***************************************************************************)
MaxRingPushes == 12

RingChange ==
    /\ impl = "types"
    /\ pops = 0 \/ pops >= c_MaxStoredSgrPushes
    /\ cur' \in StackAttrs \ {cur}
    /\ UNCHANGED <<impl, tstack, bstack, changes, outstanding, peak, shadow,
                   prevOp, lastOp, level, arg, options, result, expected, pops,
                   legacyVars, sgrVars, callVars, cursorVars, hostVars>>

RingPush ==
    /\ impl = "types"
    /\ pops = 0
    /\ outstanding < MaxRingPushes
    /\ tstack' = Types_Push(tstack, cur, <<>>)
    /\ shadow' = Append(shadow, [attr |-> cur, options |-> <<>>])
    /\ outstanding' = outstanding + 1
    /\ peak' = PeakAfterPush
    /\ prevOp' = lastOp
    /\ lastOp' = "push"
    /\ level' = outstanding
    /\ arg' = cur
    /\ options' = <<>>
    /\ result' = cur
    /\ expected' = <<>>
    /\ pops' = 0
    /\ UNCHANGED <<impl, bstack, cur, changes,
                   legacyVars, sgrVars, callVars, cursorVars, hostVars>>

RingPop ==
    /\ impl = "types"
    /\ pops > 0 \/ outstanding > c_MaxStoredSgrPushes
    /\ pops < MaxRingPushes + 2
    /\ LET r == Types_Pop(tstack, cur)
       IN  /\ tstack' = r.stack
           /\ result' = r.result
           /\ cur' = r.result
    /\ expected' = IF shadow # <<>> THEN <<shadow[Len(shadow)]>> ELSE <<>>
    /\ shadow' = IF shadow # <<>> THEN SubSeq(shadow, 1, Len(shadow) - 1) ELSE shadow
    /\ outstanding' = IF outstanding > 0 THEN outstanding - 1 ELSE 0
    /\ prevOp' = lastOp
    /\ lastOp' = "pop"
    /\ level' = outstanding
    /\ arg' = cur
    /\ pops' = pops + 1
    /\ UNCHANGED <<impl, bstack, changes, peak, options,
                   legacyVars, sgrVars, callVars, cursorVars, hostVars>>

InitRing == \E a \in StackAttrs : InitStack("types", a)

NextRing ==
    \/ RingChange
    \/ RingPush
    \/ RingPop

SpecRing == InitRing /\ [][NextRing]_vars

C32_WitnessOrder ==
    /\ impl = "types" /\ lastOp = "pop" /\ prevOp = "pop"
    /\ pops = c_MaxStoredSgrPushes /\ Len(shadow) = 2
    /\ result = expected[1].attr /\ result # arg

(***************************************************************************)
(* SpecBadOption: one Push on the empty stack of buffer/out/sgrStack.hpp   *)
(* whose options all have a numeric value of Uint32Bits or more, changes   *)
(* of the current attribute, then Pop.  The values are GraphicsOptions of  *)
(* SGR: 32 and 34 (foreground colours), 49 (BackgroundDefault) and 107     *)
(* (BrightBackgroundWhite).                                                *)
(***************************************************************************)
BadGraphicsOptions == {32, 34, 49, 107}

BadOptionLists ==
    {<<x>> : x \in BadGraphicsOptions}
      \cup {<<x, y>> : x \in BadGraphicsOptions, y \in BadGraphicsOptions}

InitBadOption == \E a \in PartialAttrs : InitStack("buffer", a)

BadOptionPush == lastOp = "none" /\ BufferPush(BadOptionLists, c_MaxStoredSgrPushes)

BadOptionChange == lastOp = "push" /\ Change(PartialAttrs, MaxChanges)

BadOptionPop == lastOp # "pop" /\ BufferPop(FALSE)

NextBadOption ==
    \/ BadOptionPush
    \/ BadOptionChange
    \/ BadOptionPop

SpecBadOption == InitBadOption /\ [][NextBadOption]_vars

\* the Pop that matches the Push made with bad options
BadOptionPopped ==
    /\ impl = "buffer" /\ lastOp = "pop" /\ level = 1 /\ expected # <<>>
    /\ \A i \in 1..Len(expected[1].options) : expected[1].options[i] >= Uint32Bits

\* the bits _CombineWithCurrentAttributes tests
RestoredFlags ==
    {GO_BoldBright, GO_Underline, GO_Negative, GO_SaveForegroundColor,
     GO_SaveBackgroundColor}

\* C33: in buffer/out/sgrStack.hpp an option whose numeric value is
\* Uint32Bits or more contributes no bit to validParts, so a Push whose
\* options are all such saves no sub-attribute and its Pop returns the
\* current attributes unchanged.
C33_BadOptionIgnored ==
    BadOptionPopped =>
        /\ bstack.validAttributes[0] = {}
        /\ result = arg

\* what holds instead: the Pop returns the current attributes when the
\* binary digits of the option values miss every bit that is tested
C33_UntestedBitsOnly ==
    (BadOptionPopped /\ bstack.validAttributes[0] \cap RestoredFlags = {}) =>
        result = arg

\* Push(a, [34]) with a bold, Pop(c) with c not bold: the result is bold
C33_WitnessBold ==
    /\ BadOptionPopped /\ expected[1].options = <<34>>
    /\ IsBold(expected[1].attr) /\ ~IsBold(arg) /\ IsBold(result)

\* Push(a, [32]), Pop(c) with c another attribute: the result is c
C33_WitnessIgnored ==
    /\ BadOptionPopped /\ expected[1].options = <<32>>
    /\ arg # expected[1].attr /\ result = arg

(***************************************************************************)
(* Indexing of the stored-entry arrays, under Spec.  Push of               *)
(* types/sgrStack.cpp writes the slot _nextPushIndex and Pop reads the     *)
(* slot before it (the last one when _nextPushIndex is 0), provided        *)
(* _numSavedAttrs > 0.  Push of buffer/out/sgrStack.hpp writes, and Pop    *)
(* reads, the slot _numSgrPushes when that is below c_MaxStoredSgrPushes.  *)
(* A slot that no Push has written holds the attribute of construction,    *)
(* which no caller passes under Spec.                                      *)
(***************************************************************************)
\* the slot the next Pop of types/sgrStack.cpp reads after k - 1 others
TypesSlotBehind(k) ==
    (tstack.nextPushIndex + c_MaxStoredSgrPushes - k) % c_MaxStoredSgrPushes

Written(a) == a \in StackAttrs

\* C34: in every state reachable by Push and Pop calls, in both
\* implementations, the indices used on the stored-entry arrays lie in
\* 0 .. c_MaxStoredSgrPushes - 1, the depth and count fields are not
\* negative, every slot a Pop can read has been written by a Push, and no
\* Pop returns an unwritten slot.
C34_Total ==
    /\ tstack.nextPushIndex \in Slots
    /\ tstack.numSavedAttrs \in 0..c_MaxStoredSgrPushes
    /\ bstack.numSgrPushes \in 0..c_MaxBalancedPushes
    /\ \A k \in 1..tstack.numSavedAttrs :
          /\ TypesSlotBehind(k) \in Slots
          /\ Written(tstack.storedSgrAttributes[TypesSlotBehind(k)].TextAttributes)
    /\ \A i \in Slots :
          i < bstack.numSgrPushes => Written(bstack.storedSgrAttributes[i])
    /\ lastOp = "pop" => Written(result)

\* the ring has been filled and a Pop stepped the index back from 0 to the
\* last slot, returning the tenth push's snapshot
C34_Witness ==
    /\ impl = "types" /\ lastOp = "pop" /\ level = c_MaxStoredSgrPushes
    /\ tstack.nextPushIndex = c_MaxStoredSgrPushes - 1
    /\ tstack.numSavedAttrs = c_MaxStoredSgrPushes - 1
    /\ Restored /\ result # arg

\* the push counter of buffer/out/sgrStack.hpp at its cap, a Pop having
\* returned its argument without reading a slot
C34_WitnessBuffer ==
    /\ impl = "buffer" /\ lastOp = "pop" /\ level > c_MaxBalancedPushes
    /\ bstack.numSgrPushes = c_MaxBalancedPushes - 1
    /\ result = arg

(***************************************************************************)
(* SpecNegative: on either stack, one Push with no option or with options  *)
(* among Bold, Underline, Negative and the two colours (the numbers are    *)
(* the same in SgrSaveRestoreStackOptions and GraphicsOptions), changes of *)
(* the current attribute, then Pop.                                        *)
(***************************************************************************)
NegativeOptions ==
    {GO_BoldBright, GO_Underline, GO_Negative, GO_SaveForegroundColor,
     GO_SaveBackgroundColor}

NegativeOptionLists == {OptionList(S) : S \in SUBSET NegativeOptions}

InitNegative == \E i \in {"types", "buffer"}, a \in PartialAttrs : InitStack(i, a)

NegativePushTypes == lastOp = "none" /\ TypesPush(NegativeOptionLists, c_MaxStoredSgrPushes)

NegativePushBuffer == lastOp = "none" /\ BufferPush(NegativeOptionLists, c_MaxStoredSgrPushes)

NegativeChange == lastOp = "push" /\ Change(PartialAttrs, MaxChanges)

NegativePopTypes == lastOp = "push" /\ TypesPop(FALSE)

NegativePopBuffer == lastOp = "push" /\ BufferPop(FALSE)

NextNegative ==
    \/ NegativePushTypes
    \/ NegativePushBuffer
    \/ NegativeChange
    \/ NegativePopTypes
    \/ NegativePopBuffer

SpecNegative == InitNegative /\ [][NextNegative]_vars

\* Negative is in the valid mask of the entry the last Pop took
NegativeInMask ==
    expected[1].options = <<>> \/ GO_Negative \in OptionSet(expected[1].options)

\* C35: when Negative is in the valid mask of the popped entry, the result's
\* reverse-video flag is the saved snapshot's for every current attribute,
\* the current attribute being inverted exactly when the two differ; when
\* Negative is not in the mask, the result's reverse-video flag is the
\* current one.
C35_NegativeCorrective ==
    (lastOp = "pop" /\ expected # <<>>) =>
        LET saved == expected[1].attr
        IN  /\ IsReverseVideo(result) =
                  IF NegativeInMask THEN IsReverseVideo(saved) ELSE IsReverseVideo(arg)
            /\ expected[1].options = <<GO_Negative>> =>
                  result = IF IsReverseVideo(saved) # IsReverseVideo(arg)
                           THEN Invert(arg)
                           ELSE arg

\* only Negative saved, on the stack of buffer/out/sgrStack.hpp: the saved
\* attribute is reversed and the current one is too, so nothing is inverted
C35_Witness ==
    /\ impl = "buffer" /\ lastOp = "pop" /\ expected # <<>>
    /\ expected[1].options = <<GO_Negative>>
    /\ IsReverseVideo(expected[1].attr) /\ IsReverseVideo(arg)
    /\ arg # expected[1].attr /\ result = arg

\* only Negative saved, on the stack of types/sgrStack.cpp: the saved
\* attribute is not reversed and the current one is, so it is inverted
C35_WitnessInverted ==
    /\ impl = "types" /\ lastOp = "pop" /\ expected # <<>>
    /\ expected[1].options = <<Opt_Negative>>
    /\ ~IsReverseVideo(expected[1].attr) /\ IsReverseVideo(arg)
    /\ result = Invert(arg) /\ ~IsReverseVideo(result)

\* Negative not saved: the current attribute keeps its reverse video
C35_WitnessNotInMask ==
    /\ lastOp = "pop" /\ expected # <<>> /\ ~NegativeInMask
    /\ IsReverseVideo(arg) /\ ~IsReverseVideo(expected[1].attr)
    /\ IsReverseVideo(result)

(***************************************************************************)
(* SpecAttribute: one member function of TextAttribute is called on an     *)
(* attribute; SetBackgroundFrom may follow SetForegroundFrom with the same *)
(* argument, and the other way round.                                      *)
(***************************************************************************)
\* a legacy word that names the colours already in the attribute's channels
AttrPacked ==
    MkAttr(TextColorIndex(4), TextColorIndex(6), FALSE,
           4 + 6 * 16 + COMMON_LVB_UNDERSCORE + COMMON_LVB_TRAILING_BYTE, {})
AttrLeading == MkAttr(TextColorIndex(1), TextColorDefault, TRUE, COMMON_LVB_LEADING_BYTE, {})
AttrTrailing ==
    MkAttr(TextColorRgb(255), TextColorIndex(9), FALSE,
           COMMON_LVB_TRAILING_BYTE + COMMON_LVB_GRID_RVERTICAL, {"Faint"})
AttrBothBytes ==
    MkAttr(TextColorDefault, TextColorRgb(65280), TRUE,
           COMMON_LVB_SBCSDBCS + COMMON_LVB_REVERSE_VIDEO, {})

AttributeInputs == PartialAttrs \cup {AttrPacked, AttrLeading, AttrTrailing, AttrBothBytes}

\* legacy words: nothing, a bright foreground, colours with an underscore and
\* a leading byte, and every bit
WordInputs ==
    {0,
     FOREGROUND_INTENSITY + 4,
     3 + 5 * 16 + COMMON_LVB_UNDERSCORE + COMMON_LVB_LEADING_BYTE,
     65535}

\* an absent index, indices of the table, and a value past a byte
IndexInputs == {<<>>, <<3>>, <<200>>, <<256 + 9>>}

InitAttribute ==
    /\ IdleStack /\ IdleSgr /\ IdleCall /\ IdleCursor /\ IdleHost
    /\ attr \in AttributeInputs
    /\ word = 0
    /\ decoded = attr
    /\ pc = <<>>

\* a call on attr that leaves the attribute `after`
MemberCalled(call, w, after) ==
    /\ pc = <<>>
    /\ pc' = call
    /\ word' = w
    /\ decoded' = after
    /\ UNCHANGED <<attr, stackVars, sgrVars, callVars, cursorVars, hostVars>>

CallSetMetaAttributes ==
    \E w \in WordInputs : MemberCalled(<<"SetMetaAttributes">>, w, SetMetaAttributes(attr, w))

CallGetMetaAttributes ==
    MemberCalled(<<"GetMetaAttributes">>, GetMetaAttributes(attr), attr)

CallSetLegacyAttributes ==
    \E w \in WordInputs, setForeground \in BOOLEAN, setBackground \in BOOLEAN,
       setMeta \in BOOLEAN :
         MemberCalled(<<"SetLegacyAttributes", setForeground, setBackground, setMeta>>, w,
                SetLegacyAttributes(attr, w, setForeground, setBackground, setMeta))

CallSetIndexedAttributes ==
    \E foreground \in IndexInputs, background \in IndexInputs :
         MemberCalled(<<"SetIndexedAttributes", foreground, background>>, 0,
                SetIndexedAttributes(attr, foreground, background))

CallSetFromLegacy ==
    \E w \in WordInputs : MemberCalled(<<"SetFromLegacy">>, w, SetFromLegacy(attr, w))

CallSetForegroundFrom ==
    \E other \in AttributeInputs :
         MemberCalled(<<"SetForegroundFrom", other>>, 0, SetForegroundFrom(attr, other))

CallSetBackgroundFrom ==
    \E other \in AttributeInputs :
         MemberCalled(<<"SetBackgroundFrom", other>>, 0, SetBackgroundFrom(attr, other))

\* SetBackgroundFrom(other) after SetForegroundFrom(other)
ThenSetBackgroundFrom ==
    /\ Len(pc) = 2 /\ pc[1] = "SetForegroundFrom"
    /\ pc' = pc \o <<"SetBackgroundFrom">>
    /\ decoded' = SetBackgroundFrom(decoded, pc[2])
    /\ UNCHANGED <<attr, word, stackVars, sgrVars, callVars, cursorVars, hostVars>>

\* SetForegroundFrom(other) after SetBackgroundFrom(other)
ThenSetForegroundFrom ==
    /\ Len(pc) = 2 /\ pc[1] = "SetBackgroundFrom"
    /\ pc' = pc \o <<"SetForegroundFrom">>
    /\ decoded' = SetForegroundFrom(decoded, pc[2])
    /\ UNCHANGED <<attr, word, stackVars, sgrVars, callVars, cursorVars, hostVars>>

CallIsLeadingByte == MemberCalled(<<"IsLeadingByte", IsLeadingByte(attr)>>, 0, attr)

CallIsTrailingByte == MemberCalled(<<"IsTrailingByte", IsTrailingByte(attr)>>, 0, attr)

NextAttribute ==
    \/ CallSetMetaAttributes
    \/ CallGetMetaAttributes
    \/ CallSetLegacyAttributes
    \/ CallSetIndexedAttributes
    \/ CallSetFromLegacy
    \/ CallSetForegroundFrom
    \/ CallSetBackgroundFrom
    \/ ThenSetBackgroundFrom
    \/ ThenSetForegroundFrom
    \/ CallIsLeadingByte
    \/ CallIsTrailingByte

SpecAttribute == InitAttribute /\ [][NextAttribute]_vars

\* the last call was `name`
Last(name) == pc # <<>> /\ pc[1] = name

\* the parts of an attribute
Colours(a) == <<a.foreground, a.background>>
MetaFlags(a) == BitAnd(a.wAttrLegacy, META_ATTRS - COMMON_LVB_SBCSDBCS)
DoubleByte(a) == BitAnd(a.wAttrLegacy, COMMON_LVB_SBCSDBCS)
OutsideMeta(a) == ClearAllFlags(a.wAttrLegacy, META_ATTRS)

\* the meta bits of a word other than the double-byte ones
MetaFlagsOf(w) == BitAnd(w, META_ATTRS - COMMON_LVB_SBCSDBCS)

\* C36: SetMetaAttributes(w) replaces exactly the legacy meta bits by those
\* of w: the colours, the boldness and the rest of the attribute are
\* unchanged and the double-byte bits are clear afterwards whatever w
\* contains; GetMetaAttributes returns the meta bits without any foreground
\* colour bit, background colour bit or double-byte bit.
C36_MetaAttributes ==
    /\ Last("SetMetaAttributes") =>
          /\ MetaFlags(decoded) = MetaFlagsOf(word)
          /\ DoubleByte(decoded) = 0
          /\ OutsideMeta(decoded) = OutsideMeta(attr)
          /\ Colours(decoded) = Colours(attr)
          /\ decoded.isBold = attr.isBold
          /\ decoded.extendedAttrs = attr.extendedAttrs
    /\ Last("GetMetaAttributes") =>
          /\ BitAnd(word, FG_ATTRS + BG_ATTRS + COMMON_LVB_SBCSDBCS) = 0
          /\ MetaFlagsOf(word) = MetaFlags(attr)

\* SetMetaAttributes with every bit of the word set, on an attribute that
\* has colour bits, an underscore and a trailing-byte bit in its word: the
\* colour bits stay, every other meta flag is set, the double-byte bits are
\* clear
C36_Witness ==
    /\ Last("SetMetaAttributes") /\ word = 65535 /\ attr = AttrPacked
    /\ DoubleByte(attr) # 0 /\ DoubleByte(decoded) = 0
    /\ OutsideMeta(decoded) = 4 + 6 * 16
    /\ IsReverseVideo(decoded) /\ ~IsReverseVideo(attr)

\* GetMetaAttributes of that attribute is the underscore alone
C36_WitnessGet ==
    /\ Last("GetMetaAttributes") /\ attr = AttrPacked
    /\ word = COMMON_LVB_UNDERSCORE

\* C37: SetLegacyAttributes(word, setFg, setBg, setMeta) changes the
\* foreground only if setFg, the background only if setBg and the meta
\* flags only if setMeta; with all three false the attribute is unchanged,
\* and boldness is never changed; SetIndexedAttributes leaves a channel
\* untouched when its argument is absent.
C37_SelectiveChannels ==
    /\ Last("SetLegacyAttributes") =>
          /\ decoded.foreground =
                IF pc[2] THEN TextColorIndex(BitAnd(word, FG_ATTRS)) ELSE attr.foreground
          /\ decoded.background =
                IF pc[3] THEN TextColorIndex(BitAnd(word, BG_ATTRS) \div 16)
                ELSE attr.background
          /\ IF pc[4]
             THEN MetaFlags(decoded) = MetaFlagsOf(word)
             ELSE decoded.wAttrLegacy = attr.wAttrLegacy
          /\ (~pc[2] /\ ~pc[3] /\ ~pc[4]) => decoded = attr
          /\ decoded.isBold = attr.isBold
          /\ decoded.extendedAttrs = attr.extendedAttrs
    /\ Last("SetIndexedAttributes") =>
          /\ decoded.foreground =
                IF pc[2] = <<>> THEN attr.foreground ELSE TextColorIndex(pc[2][1] % 256)
          /\ decoded.background =
                IF pc[3] = <<>> THEN attr.background ELSE TextColorIndex(pc[3][1] % 256)
          /\ decoded.wAttrLegacy = attr.wAttrLegacy
          /\ decoded.isBold = attr.isBold
          /\ decoded.extendedAttrs = attr.extendedAttrs

\* only the foreground asked for, with a word that has every bit: the
\* foreground becomes index 15, the background, the meta flags and the
\* boldness of a plain attribute stay
C37_Witness ==
    /\ Last("SetLegacyAttributes") /\ pc[2] /\ ~pc[3] /\ ~pc[4]
    /\ word = 65535 /\ attr = AttrPlain
    /\ decoded.foreground = TextColorIndex(15)
    /\ decoded.background = attr.background
    /\ decoded.wAttrLegacy = 0 /\ ~decoded.isBold

\* SetIndexedAttributes with the foreground absent and a background given
C37_WitnessIndexed ==
    /\ Last("SetIndexedAttributes") /\ pc[2] = <<>> /\ pc[3] = <<200>>
    /\ attr = AttrMixed
    /\ decoded.foreground = TextColorRgb(255)
    /\ decoded.background = TextColorIndex(200)

\* the colour bits of one channel in the legacy word
WordBits(a, mask) == BitAnd(a.wAttrLegacy, mask)

\* what SetForegroundFrom and SetBackgroundFrom both leave alone
NoChannel(a) == <<a.isBold, BitAnd(a.wAttrLegacy, META_ATTRS), a.extendedAttrs>>

\* C38: SetForegroundFrom(o) makes the foreground channel equal to o's and
\* leaves the background channel, boldness and every meta flag unchanged;
\* SetBackgroundFrom(o) is symmetric; applying both in either order gives
\* the same attribute.
C38_ChannelFrom ==
    /\ (Last("SetForegroundFrom") /\ Len(pc) = 2) =>
          /\ decoded.foreground = pc[2].foreground
          /\ WordBits(decoded, FG_ATTRS) = WordBits(pc[2], FG_ATTRS)
          /\ decoded.background = attr.background
          /\ WordBits(decoded, BG_ATTRS) = WordBits(attr, BG_ATTRS)
          /\ NoChannel(decoded) = NoChannel(attr)
    /\ (Last("SetBackgroundFrom") /\ Len(pc) = 2) =>
          /\ decoded.background = pc[2].background
          /\ WordBits(decoded, BG_ATTRS) = WordBits(pc[2], BG_ATTRS)
          /\ decoded.foreground = attr.foreground
          /\ WordBits(decoded, FG_ATTRS) = WordBits(attr, FG_ATTRS)
          /\ NoChannel(decoded) = NoChannel(attr)
    /\ (Last("SetForegroundFrom") /\ Len(pc) = 3) =>
          decoded = SetForegroundFrom(SetBackgroundFrom(attr, pc[2]), pc[2])
    /\ (Last("SetBackgroundFrom") /\ Len(pc) = 3) =>
          decoded = SetBackgroundFrom(SetForegroundFrom(attr, pc[2]), pc[2])

\* the foreground taken from an attribute that differs in every part: the
\* foreground and its word bits are the other's, everything else stays
C38_Witness ==
    /\ Last("SetForegroundFrom") /\ Len(pc) = 2
    /\ attr = AttrEverything /\ pc[2] = AttrPacked
    /\ decoded.foreground = TextColorIndex(4) /\ WordBits(decoded, FG_ATTRS) = 4
    /\ decoded.background = TextColorIndex(1) /\ WordBits(decoded, BG_ATTRS) = 0
    /\ decoded.isBold /\ IsReverseVideo(decoded) /\ DoubleByte(decoded) = 0

\* both channels taken, the foreground first: both colours are the other's,
\* the rest is the attribute's own
C38_WitnessBoth ==
    /\ Last("SetForegroundFrom") /\ Len(pc) = 3
    /\ attr = AttrEverything /\ pc[2] = AttrPacked
    /\ Colours(decoded) = Colours(pc[2])
    /\ NoChannel(decoded) = NoChannel(attr)
    /\ decoded # attr /\ decoded # pc[2]

\* C39: SetFromLegacy(w) overwrites the foreground index, the background
\* index and the meta flags from w and leaves boldness as it was: a bold
\* attribute is still bold after SetFromLegacy(0), and one that was not bold
\* stays not bold even when w has the foreground-intensity bit set.
C39_SetFromLegacyKeepsBold ==
    Last("SetFromLegacy") =>
        /\ decoded.foreground = TextColorIndex(BitAnd(word, FG_ATTRS))
        /\ decoded.background = TextColorIndex(BitAnd(word, BG_ATTRS) \div 16)
        /\ MetaFlags(decoded) = MetaFlagsOf(word)
        /\ decoded.isBold = attr.isBold

\* a bold attribute with an RGB foreground after SetFromLegacy(0): black on
\* black without meta flags, and still bold
C39_Witness ==
    /\ Last("SetFromLegacy") /\ word = 0 /\ attr = AttrMixed
    /\ attr.isBold /\ decoded.isBold
    /\ decoded.foreground = TextColorIndex(0) /\ decoded.wAttrLegacy = 0

\* an attribute that is not bold after SetFromLegacy of a word with the
\* intensity bit: the foreground index has the bit, the attribute is not bold
C39_WitnessIntensity ==
    /\ Last("SetFromLegacy") /\ word = FOREGROUND_INTENSITY + 4
    /\ ~attr.isBold /\ ~decoded.isBold
    /\ decoded.foreground = TextColorIndex(12)

\* C40: each meta-flag predicate reports its own flag: IsLeadingByte is
\* true iff the leading-byte flag is set and IsTrailingByte is true iff the
\* trailing-byte flag is set.
C40_ByteFlags ==
    /\ Last("IsLeadingByte") =>
          (pc[2] <=> BitAnd(attr.wAttrLegacy, COMMON_LVB_LEADING_BYTE) # 0)
    /\ Last("IsTrailingByte") =>
          (pc[2] <=> BitAnd(attr.wAttrLegacy, COMMON_LVB_TRAILING_BYTE) # 0)

\* what holds instead: IsTrailingByte reports the leading-byte flag
C40_TrailingReportsLeading ==
    Last("IsTrailingByte") =>
        (pc[2] <=> BitAnd(attr.wAttrLegacy, COMMON_LVB_LEADING_BYTE) # 0)

\* IsLeadingByte reports the leading-byte flag
C40_LeadingByte ==
    Last("IsLeadingByte") =>
        (pc[2] <=> BitAnd(attr.wAttrLegacy, COMMON_LVB_LEADING_BYTE) # 0)

\* only the leading-byte flag set, and IsTrailingByte answered true
C40_WitnessLeadingOnly ==
    /\ Last("IsTrailingByte") /\ attr = AttrLeading
    /\ DoubleByte(attr) = COMMON_LVB_LEADING_BYTE /\ pc[2]

====
